---- MODULE Spec2Model ----
(***************************************************************************)
(* Model of the circuit breaker registry of omnisearch-mcp                 *)
(* (src/common/circuit_breaker.rs): the per-provider CircuitBreaker state  *)
(* machine and the CircuitBreakerManager that keeps one breaker per        *)
(* provider name in a HashMap behind a single tokio RwLock.                *)
(*                                                                         *)
(* A call is a task that goes through the await points of                  *)
(* CircuitBreakerManager::call: it waits for the write lock of the map,    *)
(* then (with the lock held) runs the admission code of                    *)
(* CircuitBreaker::call, awaits the operation, and records the outcome.    *)
(* A future can be dropped at any await point; dropping releases the lock  *)
(* guard and runs none of the code behind the await.                       *)
(*                                                                         *)
(* The second part is the dispatcher of the library client                 *)
(* (src/client.rs): OmnisearchClient keeps the providers the factory       *)
(* (src/common/provider_factory.rs) registered in a HashMap keyed by       *)
(* provider.name(); search and multi_search walk a list of candidate       *)
(* names and await one provider adapter at a time. The cache store, the    *)
(* rate limiter registry and the breaker registry are the process-wide     *)
(* components the dispatcher runs next to.                                 *)
(***************************************************************************)
EXTENDS Integers, FiniteSets, Sequences, TLC

\* ---------------------------------------------------------------- bounds
MaxThreshold == 2      \* failure_threshold ranges over 1..MaxThreshold (C1 and C9 are about thresholds >= 1)
TimeoutTicks == 2      \* timeout_duration is TimeoutTicks ticks of the clock
MaxHalfOpen == 1       \* half_open_max_calls ranges over 0..MaxHalfOpen
MaxCalls == 3          \* operations invoked in one run of the model
MaxProviders == 2      \* the max_providers argument of multi_search ranges over 0..MaxProviders
MaxTtl == 2            \* CONFIG.cache.ttl_seconds and the ttl argument of set range over 1..MaxTtl ticks
MaxEntries == 1        \* CONFIG.cache.max_entries ranges over 0..MaxEntries
RateLimit == 1         \* requests per minute a provider's limiter admits (CONFIG.providers.<p>.rate_limit)
MaxStringLen == 1      \* the arguments of generate_cache_key are strings of at most MaxStringLen characters
MaxRecords == 3        \* record_request calls made with metrics enabled in one run of the model

Providers == {"tavily", "google"}
Callers == {"c1", "c2"}
NoCaller == "nobody"
NoProvider == "-"

\* Option<T>
None == <<>>
Some(x) == <<x>>

\* CircuitState
Closed == "Closed"
Open == "Open"
HalfOpen == "HalfOpen"

\* An Instant is kept as its elapsed() value in clock ticks: Instant::now() is 0
\* and every tick of the clock adds one. The code only ever compares
\* state_changed_at.elapsed() with timeout_duration, so elapsed values saturate
\* at timeout_duration.

VARIABLES
    enabled,              \* CircuitBreakerManager.enabled
    failure_threshold,    \* CircuitBreakerManager.failure_threshold
    timeout_duration,     \* CircuitBreakerManager.timeout_duration
    half_open_max_calls,  \* CircuitBreakerManager.half_open_max_calls
    breakers,             \* CircuitBreakerManager.breakers: HashMap from provider name to CircuitBreaker
    lock,                 \* holder of the write guard of the RwLock around the map
    pc,                   \* per caller: "idle", "waiting" (at breakers.write().await), "running" (at operation().await)
    prov,                 \* per caller: the provider argument of its call in progress
    invoked,              \* history: the number of operations invoked so far
    returned,             \* what the last step returned to its caller, None when it returned nothing
    fresh_failures,       \* history, per provider: k when all that happened to the breaker since new()/reset() is k failed calls, else -1
    failure_streak,       \* history, per provider: failed operations since the last successful one (saturates at failure_threshold)
    episode_trials,       \* history, per provider: operations invoked since the breaker last entered HalfOpen
    episode_callers,      \* history, per provider: the callers of those operations
    providers,            \* OmnisearchClient.providers: the keys of the HashMap (registered provider names)
    keys,                 \* the order in which providers.keys() iterates over the HashMap
    request,              \* the dispatch call in progress, or the last one finished: None or Some(record)
    rest,                 \* the candidate names the loop of the call has still to visit
    awaiting,             \* the provider whose adapter search() the call awaits, NoProvider when none
    last_error,           \* the last_error local of search
    adapter_calls,        \* history: the adapters the call has invoked, in order, each with its outcome ("pending", "ok", "err")
    response,             \* what the call returned: None while in progress, else Some(Ok/Err record)
    cache_enabled,        \* CacheManager.enabled
    ttl_seconds,          \* the time_to_live the MemoryCache was built with (CONFIG.cache.ttl_seconds)
    max_entries,          \* the max_capacity the MemoryCache was built with (CONFIG.cache.max_entries)
    cache,                \* MemoryCache.cache: key -> entry (value, age in ticks, history: the ttl argument of its set)
    entry_count,          \* what MokaCache::entry_count() reports: the entries as of the last housekeeping
    limiter_enabled,      \* RateLimiterManager.enabled
    provider_rate_limit,  \* CONFIG.providers.<p>.rate_limit, requests per minute (one value for the providers modelled)
    limiters,             \* RateLimiterManager.limiters: HashMap from provider name to its limiter
    limiter_ids,          \* per registered name: which Arc<ProviderRateLimiter> the map holds (the identity of the instance)
    detached,             \* the limiters removed from the map that a caller still holds: instance -> limiter
    limiter_calls,        \* per caller: its limiter call in progress (at limiters.write().await or at until_ready().await), or None
    fresh_admitted,       \* history, per provider: requests its registered limiter admitted since it was created, -1 once a replenishment interval has passed
    metrics_enabled,      \* MetricsCollector.enabled
    stats,                \* MetricsCollector.stats: HashMap from provider name to its ProviderStats
    counters,             \* the counters of the metrics recorder, per provider (omnisearch_requests_total, ...)
    records,              \* history: the RequestMetrics recorded with metrics enabled whose provider's statistics have not been reset since
    key_log               \* history: the calls of generate_cache_key made, each with its arguments and the key returned

vars == <<enabled, failure_threshold, timeout_duration, half_open_max_calls,
          breakers, lock, pc, prov, invoked, returned,
          fresh_failures, failure_streak, episode_trials, episode_callers,
          providers, keys, request, rest, awaiting, last_error, adapter_calls,
          response, cache_enabled, ttl_seconds, max_entries, cache, entry_count,
          limiter_enabled, provider_rate_limit, limiters, limiter_ids, detached,
          limiter_calls, fresh_admitted, metrics_enabled, stats, counters,
          records, key_log>>

config == <<enabled, failure_threshold, timeout_duration, half_open_max_calls>>
history == <<invoked, fresh_failures, failure_streak, episode_trials, episode_callers>>
dispatch == <<request, rest, awaiting, last_error, adapter_calls, response>>
cache_store == <<cache_enabled, ttl_seconds, max_entries, cache, entry_count>>
rate_limiting == <<limiter_enabled, provider_rate_limit, limiters, limiter_ids, detached,
                   limiter_calls, fresh_admitted>>
metrics_state == <<metrics_enabled, stats, counters, records>>
client == <<providers, keys, dispatch, cache_store, rate_limiting, metrics_state,
            key_log>>

\* Instant::now()
now == 0

\* ------------------------------------------------------- CircuitBreaker

\* CircuitBreaker::new
new(ft, td, hm) ==
    [failure_threshold |-> ft,
     timeout_duration |-> td,
     half_open_max_calls |-> hm,
     failure_count |-> 0,
     success_count |-> 0,
     state |-> Closed,
     last_failure_time |-> None,
     state_changed_at |-> now,
     half_open_calls |-> 0]

\* CircuitBreaker::should_attempt_reset
should_attempt_reset(b) ==
    b.state = Open /\ b.state_changed_at >= b.timeout_duration

\* admission with the Open -> HalfOpen transition left out: the call is let
\* through while the breaker still says Open.
admission_no_half_open(b) ==
    CASE b.state = Open ->
            IF should_attempt_reset(b)
            THEN [breaker |-> b, outcome |-> "invoke"]
            ELSE [breaker |-> b, outcome |-> "open"]
      [] b.state = HalfOpen ->
            IF b.half_open_calls >= b.half_open_max_calls
            THEN [breaker |-> b, outcome |-> "limit"]
            ELSE [breaker |-> [b EXCEPT !.half_open_calls = @ + 1],
                  outcome |-> "invoke"]
      [] b.state = Closed -> [breaker |-> b, outcome |-> "invoke"]

\* admission whose rejection in Open restarts the timeout window.
admission_rejection_restarts_window(b) ==
    CASE b.state = Open ->
            IF should_attempt_reset(b)
            THEN [breaker |-> [b EXCEPT !.state = HalfOpen,
                                        !.state_changed_at = now,
                                        !.half_open_calls = 0],
                  outcome |-> "invoke"]
            ELSE [breaker |-> [b EXCEPT !.state_changed_at = now], outcome |-> "open"]
      [] b.state = HalfOpen ->
            IF b.half_open_calls >= b.half_open_max_calls
            THEN [breaker |-> b, outcome |-> "limit"]
            ELSE [breaker |-> [b EXCEPT !.half_open_calls = @ + 1],
                  outcome |-> "invoke"]
      [] b.state = Closed -> [breaker |-> b, outcome |-> "invoke"]

\* The match on self.state at the head of CircuitBreaker::call: the breaker
\* after the admission code, and how the call goes on ("invoke" the operation,
\* or return one of the two errors).
admission(b) ==
    CASE b.state = Open ->
            IF should_attempt_reset(b)
            THEN [breaker |-> [b EXCEPT !.state = HalfOpen,
                                        !.state_changed_at = now,
                                        !.half_open_calls = 0],
                  outcome |-> "invoke"]
            ELSE [breaker |-> b, outcome |-> "open"]
      [] b.state = HalfOpen ->
            IF b.half_open_calls >= b.half_open_max_calls
            THEN [breaker |-> b, outcome |-> "limit"]
            ELSE [breaker |-> [b EXCEPT !.half_open_calls = @ + 1],
                  outcome |-> "invoke"]
      [] b.state = Closed -> [breaker |-> b, outcome |-> "invoke"]

\* on_success without the reset of failure_count in Closed.
on_success_keep_count(b) ==
    LET b1 == [b EXCEPT !.success_count = @ + 1] IN
    CASE b1.state = HalfOpen ->
            [b1 EXCEPT !.state = Closed,
                       !.state_changed_at = now,
                       !.failure_count = 0,
                       !.half_open_calls = 0]
      [] b1.state = Closed -> b1
      [] b1.state = Open -> b1

\* on_success that keeps failure_count when a trial closes the breaker.
on_success_trial_keeps_failures(b) ==
    LET b1 == [b EXCEPT !.success_count = @ + 1] IN
    CASE b1.state = HalfOpen ->
            [b1 EXCEPT !.state = Closed,
                       !.state_changed_at = now,
                       !.half_open_calls = 0]
      [] b1.state = Closed ->
            IF b1.failure_count > 0 THEN [b1 EXCEPT !.failure_count = 0] ELSE b1
      [] b1.state = Open -> b1

\* CircuitBreaker::on_success
on_success(b) ==
    LET b1 == [b EXCEPT !.success_count = @ + 1] IN
    CASE b1.state = HalfOpen ->
            [b1 EXCEPT !.state = Closed,
                       !.state_changed_at = now,
                       !.failure_count = 0,
                       !.half_open_calls = 0]
      [] b1.state = Closed ->
            IF b1.failure_count > 0 THEN [b1 EXCEPT !.failure_count = 0] ELSE b1
      [] b1.state = Open -> b1

\* on_failure that opens one failure late (> for >=).
on_failure_late(b) ==
    LET b1 == [b EXCEPT !.failure_count = @ + 1, !.last_failure_time = Some(now)] IN
    CASE b1.state = Closed ->
            IF b1.failure_count > b1.failure_threshold
            THEN [b1 EXCEPT !.state = Open, !.state_changed_at = now]
            ELSE b1
      [] b1.state = HalfOpen ->
            [b1 EXCEPT !.state = Open,
                       !.state_changed_at = now,
                       !.half_open_calls = 0]
      [] b1.state = Open -> b1

\* on_failure that does not restart the timeout window on a HalfOpen relapse.
on_failure_keep_window(b) ==
    LET b1 == [b EXCEPT !.failure_count = @ + 1, !.last_failure_time = Some(now)] IN
    CASE b1.state = Closed ->
            IF b1.failure_count >= b1.failure_threshold
            THEN [b1 EXCEPT !.state = Open, !.state_changed_at = now]
            ELSE b1
      [] b1.state = HalfOpen ->
            [b1 EXCEPT !.state = Open,
                       !.half_open_calls = 0]
      [] b1.state = Open -> b1

\* on_failure that keeps the trial counter on a HalfOpen relapse.
on_failure_keep_trials(b) ==
    LET b1 == [b EXCEPT !.failure_count = @ + 1, !.last_failure_time = Some(now)] IN
    CASE b1.state = Closed ->
            IF b1.failure_count >= b1.failure_threshold
            THEN [b1 EXCEPT !.state = Open, !.state_changed_at = now]
            ELSE b1
      [] b1.state = HalfOpen ->
            [b1 EXCEPT !.state = Open,
                       !.state_changed_at = now]
      [] b1.state = Open -> b1

\* CircuitBreaker::on_failure
on_failure(b) ==
    LET b1 == [b EXCEPT !.failure_count = @ + 1, !.last_failure_time = Some(now)] IN
    CASE b1.state = Closed ->
            IF b1.failure_count >= b1.failure_threshold
            THEN [b1 EXCEPT !.state = Open, !.state_changed_at = now]
            ELSE b1
      [] b1.state = HalfOpen ->
            [b1 EXCEPT !.state = Open,
                       !.state_changed_at = now,
                       !.half_open_calls = 0]
      [] b1.state = Open -> b1

\* CircuitBreaker::get_stats
get_stats(b, p) ==
    [provider |-> p,
     state |-> b.state,
     failure_count |-> b.failure_count,
     success_count |-> b.success_count,
     last_failure_time |-> b.last_failure_time,
     state_changed_at |-> b.state_changed_at]

\* reset that forgets the half-open trial counter.
reset_keep_trials(b) ==
    [b EXCEPT !.state = Closed,
              !.failure_count = 0,
              !.success_count = 0,
              !.last_failure_time = None,
              !.state_changed_at = now]

\* CircuitBreaker::reset
reset(b) ==
    [b EXCEPT !.state = Closed,
              !.failure_count = 0,
              !.success_count = 0,
              !.last_failure_time = None,
              !.state_changed_at = now,
              !.half_open_calls = 0]

\* One tick of the clock, seen from the Instants a breaker holds.
later(t, cap) == IF t < cap THEN t + 1 ELSE t
aged(b) ==
    [b EXCEPT !.state_changed_at = later(@, b.timeout_duration),
              !.last_failure_time =
                  IF @ = None THEN None ELSE Some(later(@[1], b.timeout_duration))]

\* ------------------------------------------------ CircuitBreakerManager

\* HashMap::insert
insert(m, k, v) == [x \in DOMAIN m \cup {k} |-> IF x = k THEN v ELSE m[x]]

\* The `if !breakers.contains_key(provider) { breakers.insert(..) }` of
\* CircuitBreakerManager::call: the breaker the call then works on.
entry(p) ==
    IF p \notin DOMAIN breakers
    THEN new(failure_threshold, timeout_duration, half_open_max_calls)
    ELSE breakers[p]

\* tokio RwLock: a guard is granted when no write guard is held. The only
\* guards that live across an await are the write guards of call.
write_lock_free == lock = NoCaller
read_lock_free == lock = NoCaller

\* What the recorder has counted for a provider when nothing was recorded.
no_counts ==
    [requests |-> 0, successful |-> 0, failed |-> 0, cache_hits |-> 0, cache_misses |-> 0]

\* MetricsCollector::new with metrics enabled: no statistics, nothing recorded.
MetricsAtRest ==
    /\ metrics_enabled = TRUE
    /\ stats = <<>>
    /\ counters = [p \in Providers |-> no_counts]
    /\ records = <<>>

\* RateLimiterManager::new with rate limiting enabled: an empty map, no call
\* in progress.
LimiterAtRest ==
    /\ limiter_enabled = TRUE
    /\ provider_rate_limit = RateLimit
    /\ limiters = <<>>
    /\ limiter_ids = <<>>
    /\ detached = <<>>
    /\ limiter_calls = [c \in Callers |-> None]
    /\ fresh_admitted = [p \in Providers |-> 0]

\* The cache manager right after CacheManager::new with the cache enabled: an
\* empty MemoryCache.
CacheAtRest ==
    /\ cache_enabled = TRUE
    /\ ttl_seconds = MaxTtl
    /\ max_entries = MaxEntries
    /\ cache = <<>>
    /\ entry_count = 0

\* The library client when nothing but DuckDuckGo is configured and no search
\* has been made.
DispatcherAtRest ==
    /\ providers = {"duckduckgo"}
    /\ keys = <<"duckduckgo">>
    /\ request = None
    /\ rest = <<>>
    /\ awaiting = NoProvider
    /\ last_error = None
    /\ adapter_calls = <<>>
    /\ response = None

\* The library client at rest; the cache and the limiter registry are empty.
ClientAtRest ==
    /\ DispatcherAtRest
    /\ CacheAtRest
    /\ LimiterAtRest
    /\ MetricsAtRest
    /\ key_log = <<>>

Init ==
    /\ ClientAtRest
    /\ enabled \in BOOLEAN
    /\ failure_threshold \in 1..MaxThreshold
    /\ timeout_duration = TimeoutTicks
    /\ half_open_max_calls \in 0..MaxHalfOpen
    /\ breakers = <<>>
    /\ lock = NoCaller
    /\ pc = [c \in Callers |-> "idle"]
    /\ prov = [c \in Callers |-> NoProvider]
    /\ invoked = 0
    /\ returned = None
    /\ fresh_failures = [p \in Providers |-> 0]
    /\ failure_streak = [p \in Providers |-> 0]
    /\ episode_trials = [p \in Providers |-> 0]
    /\ episode_callers = [p \in Providers |-> {}]

\* Time passes.
Tick ==
    /\ breakers' = [p \in DOMAIN breakers |-> aged(breakers[p])]
    /\ returned' = None
    /\ UNCHANGED <<client, config, lock, pc, prov, history>>

\* Request without the `if !self.enabled` early return of call.
Request_always_gated(c, p) ==
    /\ pc[c] = "idle"
    /\ prov' = [prov EXCEPT ![c] = p]
    /\ pc' = [pc EXCEPT ![c] = "waiting"]
    /\ returned' = None
    /\ UNCHANGED <<client, config, breakers, lock, history>>

\* CircuitBreakerManager::call is entered. Disabled: `return operation().await`,
\* the operation is invoked at once. Enabled: the task is at breakers.write().await.
Request(c, p) ==
    /\ pc[c] = "idle"
    /\ ~enabled => invoked < MaxCalls
    /\ prov' = [prov EXCEPT ![c] = p]
    /\ pc' = [pc EXCEPT ![c] = IF enabled THEN "waiting" ELSE "running"]
    /\ invoked' = IF enabled THEN invoked ELSE invoked + 1
    /\ returned' = None
    /\ UNCHANGED <<client, config, breakers, lock,
                   fresh_failures, failure_streak, episode_trials, episode_callers>>

\* Acquire when the guard of the map is not exclusive: a call passes while
\* another call is in flight.
Acquire_unlocked(c) ==
    /\ pc[c] = "waiting"
    /\ LET p == prov[c]
           b == entry(p)
           a == admission(b)
       IN
       /\ breakers' = insert(breakers, p, a.breaker)
       /\ IF a.outcome = "invoke"
          THEN /\ invoked < MaxCalls
               /\ invoked' = invoked + 1
               /\ pc' = [pc EXCEPT ![c] = "running"]
               /\ prov' = prov
               /\ lock' = c
               /\ returned' = None
               /\ fresh_failures' =
                    [fresh_failures EXCEPT ![p] = IF b.state = Closed THEN @ ELSE -1]
               /\ episode_trials' =
                    [episode_trials EXCEPT ![p] =
                        IF a.breaker.state # HalfOpen THEN 0
                        ELSE IF b.state = Open THEN 1 ELSE @ + 1]
               /\ episode_callers' =
                    [episode_callers EXCEPT ![p] =
                        IF a.breaker.state # HalfOpen THEN {}
                        ELSE IF b.state = Open THEN {c} ELSE @ \cup {c}]
          ELSE /\ pc' = [pc EXCEPT ![c] = "idle"]
               /\ prov' = [prov EXCEPT ![c] = NoProvider]
               /\ lock' = lock
               /\ returned' = Some([op |-> "call", caller |-> c, provider |-> p,
                                    value |-> a.outcome])
               /\ UNCHANGED <<invoked, fresh_failures, episode_trials, episode_callers>>
    /\ UNCHANGED <<client, config, failure_streak>>

\* The write guard is granted; the code from there to operation().await runs
\* without an await in between: create the breaker if absent, then the admission
\* match of CircuitBreaker::call. A rejected call returns (the guard is dropped).
Acquire(c) ==
    /\ pc[c] = "waiting"
    /\ write_lock_free
    /\ LET p == prov[c]
           b == entry(p)
           a == admission(b)
       IN
       /\ breakers' = insert(breakers, p, a.breaker)
       /\ IF a.outcome = "invoke"
          THEN /\ invoked < MaxCalls
               /\ invoked' = invoked + 1
               /\ pc' = [pc EXCEPT ![c] = "running"]
               /\ prov' = prov
               /\ lock' = c
               /\ returned' = None
               /\ fresh_failures' =
                    [fresh_failures EXCEPT ![p] = IF b.state = Closed THEN @ ELSE -1]
               /\ episode_trials' =
                    [episode_trials EXCEPT ![p] =
                        IF a.breaker.state # HalfOpen THEN 0
                        ELSE IF b.state = Open THEN 1 ELSE @ + 1]
               /\ episode_callers' =
                    [episode_callers EXCEPT ![p] =
                        IF a.breaker.state # HalfOpen THEN {}
                        ELSE IF b.state = Open THEN {c} ELSE @ \cup {c}]
          ELSE /\ pc' = [pc EXCEPT ![c] = "idle"]
               /\ prov' = [prov EXCEPT ![c] = NoProvider]
               /\ lock' = lock
               /\ returned' = Some([op |-> "call", caller |-> c, provider |-> p,
                                    value |-> a.outcome])
               /\ UNCHANGED <<invoked, fresh_failures, episode_trials, episode_callers>>
    /\ UNCHANGED <<client, config, failure_streak>>

\* operation().await returns Ok (ok = TRUE) or Err: on_success / on_failure run,
\* the call returns the operation's result and the guard is dropped. With the
\* manager disabled the result is returned and no breaker is touched.
Complete(c, ok) ==
    /\ pc[c] = "running"
    /\ pc' = [pc EXCEPT ![c] = "idle"]
    /\ prov' = [prov EXCEPT ![c] = NoProvider]
    /\ returned' = Some([op |-> "call", caller |-> c, provider |-> prov[c],
                         value |-> IF ok THEN "ok" ELSE "err"])
    /\ IF enabled
       THEN LET p == prov[c]
                b == breakers[p]
                b2 == IF ok THEN on_success(b) ELSE on_failure(b)
            IN
            /\ breakers' = [breakers EXCEPT ![p] = b2]
            /\ lock' = NoCaller
            /\ fresh_failures' =
                 [fresh_failures EXCEPT ![p] = IF ~ok /\ @ >= 0 THEN @ + 1 ELSE -1]
            /\ failure_streak' =
                 [failure_streak EXCEPT ![p] =
                     IF ok THEN 0
                     ELSE IF @ < failure_threshold THEN @ + 1 ELSE @]
            /\ episode_trials' =
                 [episode_trials EXCEPT ![p] = IF b2.state = HalfOpen THEN @ ELSE 0]
            /\ episode_callers' =
                 [episode_callers EXCEPT ![p] = IF b2.state = HalfOpen THEN @ ELSE {}]
       ELSE /\ failure_streak' =
                 [failure_streak EXCEPT ![prov[c]] =
                     IF ok THEN 0
                     ELSE IF @ < failure_threshold THEN @ + 1 ELSE @]
            /\ UNCHANGED <<breakers, lock,
                           fresh_failures, episode_trials, episode_callers>>
    /\ UNCHANGED <<client, config, invoked>>

\* The future of a call is dropped while it awaits the operation (a caller
\* deadline, a select! or an aborted task): the guard is released, neither
\* on_success nor on_failure runs. `returned` notes the abort.
Abort(c) ==
    /\ pc[c] = "running"
    /\ pc' = [pc EXCEPT ![c] = "idle"]
    /\ prov' = [prov EXCEPT ![c] = NoProvider]
    /\ returned' = Some([op |-> "call", caller |-> c, provider |-> prov[c],
                         value |-> "aborted"])
    /\ lock' = IF lock = c THEN NoCaller ELSE lock
    /\ fresh_failures' =
         [fresh_failures EXCEPT ![prov[c]] = IF enabled THEN -1 ELSE @]
    /\ UNCHANGED <<client, config, breakers, invoked,
                   failure_streak, episode_trials, episode_callers>>

\* The future of a call is dropped while it waits for the write guard; the
\* call has had no effect.
AbortWaiting(c) ==
    /\ pc[c] = "waiting"
    /\ pc' = [pc EXCEPT ![c] = "idle"]
    /\ prov' = [prov EXCEPT ![c] = NoProvider]
    /\ returned' = None
    /\ UNCHANGED <<client, config, breakers, lock, history>>

\* CircuitBreakerManager::get_stats (the read guard is taken and released
\* without an await in between).
GetStats(p) ==
    /\ enabled => read_lock_free
    /\ returned' = Some([op |-> "get_stats", provider |-> p,
                         value |-> IF ~enabled \/ p \notin DOMAIN breakers THEN None
                                   ELSE Some(get_stats(breakers[p], p))])
    /\ UNCHANGED <<client, config, breakers, lock, pc, prov, history>>

\* CircuitBreakerManager::reset
Reset(p) ==
    /\ enabled => write_lock_free
    /\ returned' = Some([op |-> "reset", provider |-> p, value |-> "ok"])
    /\ IF enabled /\ p \in DOMAIN breakers
       THEN /\ breakers' = [breakers EXCEPT ![p] = reset(@)]
            /\ fresh_failures' = [fresh_failures EXCEPT ![p] = 0]
            /\ failure_streak' = [failure_streak EXCEPT ![p] = 0]
            /\ episode_trials' = [episode_trials EXCEPT ![p] = 0]
            /\ episode_callers' = [episode_callers EXCEPT ![p] = {}]
       ELSE UNCHANGED <<breakers,
                        fresh_failures, failure_streak, episode_trials, episode_callers>>
    /\ UNCHANGED <<client, config, lock, pc, prov, invoked>>

Next ==
    \/ Tick
    \/ \E c \in Callers, p \in Providers : Request(c, p)
    \/ \E c \in Callers : Acquire(c)
    \/ \E c \in Callers, ok \in BOOLEAN : Complete(c, ok)
    \/ \E c \in Callers : Abort(c)
    \/ \E c \in Callers : AbortWaiting(c)
    \/ \E p \in Providers : GetStats(p)
    \/ \E p \in Providers : Reset(p)

Spec == Init /\ [][Next]_vars

\* CircuitBreakerManager::get_or_create_breaker: under the write guard the
\* breaker is created if absent; the guard is dropped, a read guard is taken
\* and not used, and the value handed out is
\* Arc::new(RwLock::new(CircuitBreaker::new(..))). Nothing between the two
\* guards depends on the map, so the accessor is one step.
GetOrCreateBreaker(p) ==
    /\ write_lock_free
    /\ read_lock_free
    /\ breakers' = IF p \in DOMAIN breakers THEN breakers
                   ELSE insert(breakers, p,
                               new(failure_threshold, timeout_duration, half_open_max_calls))
    /\ returned' = Some([op |-> "get_or_create_breaker", provider |-> p,
                         value |-> new(failure_threshold, timeout_duration,
                                       half_open_max_calls)])
    /\ UNCHANGED <<client, config, lock, pc, prov, history>>

\* The manager with its accessor in use.
AccessorNext ==
    \/ Next
    \/ \E p \in Providers : GetOrCreateBreaker(p)

SpecAccessor == Init /\ [][AccessorNext]_vars

\* ----------------------------------------------------- OmnisearchClient

\* The provider sections of CONFIG that carry credentials in some run of the
\* model (DuckDuckGo needs none and is always created).
Credentials == {"tavily", "google", "reddit"}

\* The preferred_provider strings and the queries callers pass.
PreferredNames == {"tavily", "google", "google_custom_search", "duckduckgo", "reddit"}
Queries == {"rust"}

\* ProviderFactory::create_search_providers: the providers in the order they
\* are pushed, each with the CONFIG section whose credentials it needs and the
\* string its name() returns.
factory ==
    << [section |-> "tavily", name |-> "tavily"],
       [section |-> "google", name |-> "google_custom_search"],
       [section |-> "reddit", name |-> "reddit"],
       [section |-> "", name |-> "duckduckgo"],
       [section |-> "baidu", name |-> "baidu"],
       [section |-> "brightdata", name |-> "brightdata"],
       [section |-> "exa", name |-> "exa"] >>
create_search_providers(configured) ==
    SelectSeq(factory, LAMBDA f : f.section = "" \/ f.section \in configured)

\* OmnisearchClient::new: providers.insert(provider.name().to_string(), provider)
registered(provider_list) == {provider_list[i].name : i \in DOMAIN provider_list}

\* HashMap::keys() iterates in an order the hasher's random seed decides.
Orders(S) ==
    {o \in [1..Cardinality(S) -> S] : \A i, j \in 1..Cardinality(S) : i # j => o[i] # o[j]}

\* The provider_order of search in another order.
provider_order_web_first == <<"duckduckgo", "tavily", "google", "reddit", "exa", "brave">>

\* search: let provider_order = [..]
provider_order == <<"tavily", "google", "duckduckgo", "reddit", "exa", "brave">>

\* contains_key that finds every name.
contains_key_any(name) == TRUE

\* self.providers.get(name) is Some / self.providers.contains_key(name)
contains_key(name) == name \in providers

\* The preferred provider followed by the priority list.
only_then_order(name) == <<name>> \o provider_order

\* The candidates when the caller names a registered provider: vec![preferred]
only(name) == <<name>>

\* Iterator::take
take(names, n) == SubSeq(names, 1, IF n < Len(names) THEN n ELSE Len(names))

\* ProviderError::new(error_type, message, provider, None)
ProviderError(error_type, message, provider) ==
    [error_type |-> error_type, message |-> message, provider |-> provider]

\* What the adapter of provider p returns: its SearchResults, or its error.
results(p, q) == [source_provider |-> p, query |-> q]
adapter_error(p) == ProviderError("ApiError", "request failed", p)

\* Result<SearchResponse, ProviderError>
Ok(res, used, q) == [ok |-> TRUE, results |-> res, providers_used |-> used, query |-> q]
Err(e) == [ok |-> FALSE, error |-> e]

\* The end of search that forgets the providers' errors.
terminal_generic(le) ==
    ProviderError("ProviderError", "No providers available for search", "client")

\* The end of search: last_error.unwrap_or_else(|| ProviderError::new(..))
terminal(le) ==
    IF le = None
    THEN ProviderError("ProviderError", "No providers available for search", "client")
    ELSE le[1]

\* `for provider_name in .. { if let Some(provider) = self.providers.get(..)`:
\* the names from the first registered one on.
RECURSIVE skip(_)
skip(names) ==
    IF names = <<>> \/ contains_key(Head(names)) THEN names ELSE skip(Tail(names))

\* The loop goes on over names: the adapter of the first registered name is
\* invoked and awaited; with no registered name left the call returns exhausted.
Advance(names, calls, exhausted) ==
    LET todo == skip(names) IN
    IF todo # <<>>
    THEN /\ awaiting' = Head(todo)
         /\ rest' = Tail(todo)
         /\ adapter_calls' = Append(calls, [provider |-> Head(todo), outcome |-> "pending"])
         /\ response' = None
    ELSE /\ awaiting' = NoProvider
         /\ rest' = <<>>
         /\ adapter_calls' = calls
         /\ response' = Some(exhausted)

\* The call returns r, having invoked the adapters in calls.
Return(r, calls) ==
    /\ awaiting' = NoProvider
    /\ rest' = <<>>
    /\ adapter_calls' = calls
    /\ response' = Some(r)

\* GovernorLimiter::direct(Quota::per_minute(rate_limit)): a limiter that admits
\* rate_limit requests at once; `used` counts the ones admitted and not yet
\* replenished.
direct(rate_limit) == [burst |-> rate_limit, used |-> 0]

\* check that admits whatever the limiter has admitted before.
check_unlimited(l) ==
    [limiter |-> [l EXCEPT !.used = @ + 1], ok |-> TRUE]

\* RateLimiter::check
check(l) ==
    [limiter |-> IF l.used < l.burst THEN [l EXCEPT !.used = @ + 1] ELSE l,
     ok |-> l.used < l.burst]

\* RateLimiterManager::get_provider_rate_limit
get_provider_rate_limit(p) == provider_rate_limit

\* RateLimiterManager::check_rate_limit on the map ls: the map afterwards and
\* whether the request is admitted.
check_rate_limit(ls, p) ==
    IF ~limiter_enabled
    THEN [limiters |-> ls, ok |-> TRUE]
    ELSE LET l == IF p \in DOMAIN ls THEN ls[p] ELSE direct(get_provider_rate_limit(p))
             c == check(l)
         IN [limiters |-> insert(ls, p, c.limiter), ok |-> c.ok]

\* The limiter map after n check_rate_limit(p).
RECURSIVE checked(_, _, _)
checked(ls, p, n) ==
    IF n = 0 THEN ls ELSE checked(check_rate_limit(ls, p).limiters, p, n - 1)

\* The process when a client has been built by OmnisearchClient::new: the
\* registry holds what the factory created for the configured credentials, no
\* search has been made, the cache is empty; the breaker of tavily is either
\* not created yet or Open after one failed call (failure_threshold = 1), and
\* the limiter of tavily is either not created yet or has admitted its quota.
ClientInit ==
    /\ \E configured \in SUBSET Credentials :
          providers = registered(create_search_providers(configured))
    /\ keys \in Orders(providers)
    /\ request = None
    /\ rest = <<>>
    /\ awaiting = NoProvider
    /\ last_error = None
    /\ adapter_calls = <<>>
    /\ response = None
    /\ CacheAtRest
    /\ limiter_enabled \in BOOLEAN
    /\ provider_rate_limit = RateLimit
    /\ limiters \in {<<>>, checked(<<>>, "tavily", RateLimit)}
    /\ limiter_ids = [p \in DOMAIN limiters |-> 0]
    /\ detached = <<>>
    /\ limiter_calls = [c \in Callers |-> None]
    /\ fresh_admitted = [p \in Providers |->
                            IF p \in DOMAIN limiters THEN limiters[p].used ELSE 0]
    /\ MetricsAtRest
    /\ key_log = <<>>
    /\ enabled = TRUE
    /\ failure_threshold = 1
    /\ timeout_duration = TimeoutTicks
    /\ half_open_max_calls = MaxHalfOpen
    /\ breakers \in {<<>>,
                     insert(<<>>, "tavily",
                            on_failure(new(1, TimeoutTicks, MaxHalfOpen)))}
    /\ lock = NoCaller
    /\ pc = [c \in Callers |-> "idle"]
    /\ prov = [c \in Callers |-> NoProvider]
    /\ invoked = Cardinality(DOMAIN breakers)
    /\ returned = None
    /\ fresh_failures = [p \in Providers |-> IF p \in DOMAIN breakers THEN 1 ELSE 0]
    /\ failure_streak = [p \in Providers |-> IF p \in DOMAIN breakers THEN 1 ELSE 0]
    /\ episode_trials = [p \in Providers |-> 0]
    /\ episode_callers = [p \in Providers |-> {}]

\* What no step of the dispatcher touches: the registry, the cache store, the
\* limiter registry and the breaker registry.
surroundings ==
    <<providers, keys, cache_store, rate_limiting, metrics_state, key_log,
      config, breakers, lock, pc, prov, history, returned>>

\* OmnisearchClient::search up to its first await (or its return): the named
\* provider, or the first registered name of provider_order.
Search(q, preferred_provider) ==
    /\ awaiting = NoProvider
    /\ request' = Some([fn |-> "search", query |-> q,
                        preferred_provider |-> preferred_provider])
    /\ last_error' = None
    /\ IF preferred_provider # None
       THEN IF contains_key(preferred_provider[1])
            THEN Advance(only(preferred_provider[1]), <<>>,
                         Err(terminal(None)))
            ELSE Return(Err(ProviderError("InvalidInput",
                                          "Provider is not available", "client")),
                        <<>>)
       ELSE Advance(provider_order, <<>>, Err(terminal(None)))
    /\ UNCHANGED surroundings

\* OmnisearchClient::multi_search up to its first await (or its return):
\* providers_to_use is the named provider, or the first max_providers keys of
\* the HashMap.
MultiSearch(q, preferred_provider, max_providers) ==
    /\ awaiting = NoProvider
    /\ request' = Some([fn |-> "multi_search", query |-> q,
                        preferred_provider |-> preferred_provider,
                        max_providers |-> max_providers])
    /\ last_error' = None
    /\ IF preferred_provider # None /\ ~contains_key(preferred_provider[1])
       THEN Return(Err(ProviderError("InvalidInput",
                                     "Preferred provider not available", "client")),
                   <<>>)
       ELSE Advance(IF preferred_provider # None
                    THEN only(preferred_provider[1])
                    ELSE take(keys, max_providers),
                    <<>>,
                    Err(ProviderError("ProviderError",
                                      "All provider searches failed", "client")))
    /\ UNCHANGED surroundings

\* The history once the adapter awaited has returned.
settled(calls, ok) ==
    [calls EXCEPT ![Len(calls)].outcome = IF ok THEN "ok" ELSE "err"]

\* provider.search(params).await returns Ok (ok = TRUE) or Err. Ok: the call
\* returns that provider's results. Err: search with a named provider returns
\* the error (`?`); search without one sets last_error and goes on with the
\* loop; multi_search drops the error and goes on with the loop.
AdapterReturns(ok) ==
    /\ awaiting # NoProvider
    /\ request' = request
    /\ LET r == request[1]
           p == awaiting
       IN
       IF ok
       THEN /\ Return(Ok(results(p, r.query), <<p>>, r.query), settled(adapter_calls, ok))
            /\ last_error' = last_error
       ELSE IF r.fn = "search" /\ r.preferred_provider # None
       THEN /\ Return(Err(adapter_error(p)), settled(adapter_calls, ok))
            /\ last_error' = last_error
       ELSE IF r.fn = "search"
       THEN /\ last_error' = Some(adapter_error(p))
            /\ Advance(rest, settled(adapter_calls, ok),
                       Err(terminal(Some(adapter_error(p)))))
       ELSE /\ last_error' = last_error
            /\ Advance(rest, settled(adapter_calls, ok),
                       Err(ProviderError("ProviderError",
                                         "All provider searches failed", "client")))
    /\ UNCHANGED surroundings

Preferences == {None} \cup {Some(n) : n \in PreferredNames}

ClientNext ==
    \/ \E q \in Queries, pref \in Preferences : Search(q, pref)
    \/ \E q \in Queries, pref \in Preferences, m \in 0..MaxProviders :
          MultiSearch(q, pref, m)
    \/ \E ok \in BOOLEAN : AdapterReturns(ok)

ClientSpec == ClientInit /\ [][ClientNext]_vars

\* ------------------------------------------------------------ the claims

\* What a step of one call looks like from outside.
Returns(c, p, v) ==
    returned' = Some([op |-> "call", caller |-> c, provider |-> p, value |-> v])
Returned(c, p, v) ==
    returned = Some([op |-> "call", caller |-> c, provider |-> p, value |-> v])
InFlight(p) == \E c \in Callers : pc[c] = "running" /\ prov[c] = p

\* Caller c is about to be served by a breaker that is Open and whose timeout
\* has not elapsed.
OpenInsideWindow(c) ==
    /\ pc[c] = "waiting"
    /\ prov[c] \in DOMAIN breakers
    /\ breakers[prov[c]].state = Open
    /\ breakers[prov[c]].state_changed_at < breakers[prov[c]].timeout_duration

\* Caller c is about to be served by a breaker that is Open and whose timeout
\* has elapsed.
OpenPastWindow(c) ==
    /\ pc[c] = "waiting"
    /\ prov[c] \in DOMAIN breakers
    /\ breakers[prov[c]].state = Open
    /\ breakers[prov[c]].state_changed_at >= breakers[prov[c]].timeout_duration

\* The step ends c's wait for the lock without invoking its operation: the call
\* returns the "Circuit breaker is open" error (or its future was dropped while
\* it waited), and the breaker is as it was.
RejectsOpen(c) ==
    /\ pc'[c] = "idle"
    /\ invoked' = invoked
    /\ breakers' = breakers
    /\ returned' = None \/ Returns(c, prov[c], "open")

\* The step returns an error from c's call before its operation is invoked.
Refuses(c) == pc[c] = "waiting" /\ pc'[c] = "idle" /\ returned' # None

\* C1: a breaker whose whole history since it was created (or reset) is k
\* failed calls is Closed while k < failure_threshold and Open when
\* k = failure_threshold; a call served while the breaker is Open and its
\* timeout has not elapsed returns the open error without invoking its operation.
C1_ThresholdOpens ==
    [][/\ \A p \in DOMAIN breakers' :
             fresh_failures'[p] >= 0 =>
                /\ fresh_failures'[p] <= breakers'[p].failure_threshold
                /\ fresh_failures'[p] < breakers'[p].failure_threshold
                      => breakers'[p].state = Closed
                /\ fresh_failures'[p] = breakers'[p].failure_threshold
                      => breakers'[p].state = Open
       /\ \A c \in Callers :
             OpenInsideWindow(c) /\ pc'[c] # "waiting" => RejectsOpen(c)
      ]_vars

\* C1 witness: with failure_threshold = 2, two failed calls have opened a fresh
\* breaker and the third call has just been rejected.
C1_Witness ==
    \E p \in DOMAIN breakers, c \in Callers :
        /\ failure_threshold = 2
        /\ fresh_failures[p] = 2
        /\ breakers[p].state = Open
        /\ breakers[p].state_changed_at < breakers[p].timeout_duration
        /\ Returned(c, p, "open")

\* C2: while a breaker is Open, a call served before the timeout has elapsed is
\* rejected; a call served once it has elapsed is never rejected: the breaker
\* is HalfOpen when the operation is invoked; and a HalfOpen operation that
\* succeeds leaves the breaker Closed with failure_count = 0.
C2_Recovery ==
    [][\A c \in Callers :
          /\ OpenInsideWindow(c) /\ pc'[c] # "waiting" => RejectsOpen(c)
          /\ OpenPastWindow(c) => ~Refuses(c)
          /\ OpenPastWindow(c) /\ pc'[c] = "running"
             => /\ breakers'[prov[c]].state = HalfOpen
                /\ invoked' = invoked + 1
          /\ ( /\ enabled /\ pc[c] = "running"
               /\ breakers[prov[c]].state = HalfOpen
               /\ Returns(c, prov[c], "ok") )
             => /\ breakers'[prov[c]].state = Closed
                /\ breakers'[prov[c]].failure_count = 0
      ]_vars

\* C2 witness: with failure_threshold = 1 a breaker that has failed is Closed
\* again right after a successful call, which can only have been a HalfOpen trial.
C2_Witness ==
    \E p \in DOMAIN breakers, c \in Callers :
        /\ failure_threshold = 1
        /\ breakers[p].last_failure_time # None
        /\ breakers[p].state = Closed
        /\ breakers[p].failure_count = 0
        /\ Returned(c, p, "ok")

\* C3: a HalfOpen operation that fails leaves the breaker Open with the trial
\* counter at 0 and the timeout window restarted, and a call served inside the
\* window is rejected without invoking its operation.
C3_Relapse ==
    [][\A c \in Callers :
          /\ ( /\ enabled /\ pc[c] = "running"
               /\ breakers[prov[c]].state = HalfOpen
               /\ Returns(c, prov[c], "err") )
             => /\ breakers'[prov[c]].state = Open
                /\ breakers'[prov[c]].half_open_calls = 0
                /\ breakers'[prov[c]].state_changed_at = now
                /\ breakers'[prov[c]].state_changed_at < breakers'[prov[c]].timeout_duration
          /\ OpenInsideWindow(c) /\ pc'[c] # "waiting" => RejectsOpen(c)
      ]_vars

\* C3 witness: a call has just been rejected by a breaker that is Open with more
\* failures than failure_threshold, that is, after a relapse from HalfOpen.
C3_Witness ==
    \E p \in DOMAIN breakers, c \in Callers :
        /\ breakers[p].state = Open
        /\ breakers[p].failure_count > breakers[p].failure_threshold
        /\ Returned(c, p, "open")

\* C4 (as claimed): the operations invoked in one HalfOpen episode, the call
\* that made the Open -> HalfOpen transition included, never exceed
\* half_open_max_calls.
C4_ExactAdmission ==
    \A p \in DOMAIN breakers :
        episode_trials[p] <= breakers[p].half_open_max_calls

\* C5 (as claimed): at most one call of the manager has its operation in flight,
\* and with half_open_max_calls = 1 no two callers have their operation invoked
\* as a trial of the same HalfOpen episode.
C5_AtomicAdmission ==
    enabled =>
       /\ Cardinality({c \in Callers : pc[c] = "running"}) <= 1
       /\ \A c \in Callers : pc[c] = "running" <=> lock = c
       /\ half_open_max_calls = 1 =>
             \A p \in Providers : Cardinality(episode_callers[p]) <= 1

\* C6 (as claimed): while a call for one provider awaits its operation, a call
\* (or get_stats, or reset) for another provider gets the lock it waits for.
C6_NoContention ==
    \A c1, c2 \in Callers :
        ( /\ enabled
          /\ pc[c1] = "running"
          /\ pc[c2] = "waiting"
          /\ prov[c1] # prov[c2] )
        => write_lock_free /\ read_lock_free

\* C7 (as claimed): a call dropped while it awaits its operation is recorded as
\* a failure.
C7_AbortIsFailure ==
    [][\A c \in Callers :
          ( /\ enabled /\ pc[c] = "running"
            /\ Returns(c, prov[c], "aborted") )
          => breakers'[prov[c]] = on_failure(breakers[prov[c]])
      ]_vars

\* The breaker rejects a call that arrives now or after any wait.
after(b, k) == [b EXCEPT !.state_changed_at =
                    IF @ + k < b.timeout_duration THEN @ + k ELSE b.timeout_duration]
RejectsForever(b) ==
    \A k \in 0..b.timeout_duration : admission(after(b, k)).outcome # "invoke"

\* C8 (as claimed): a breaker with no call in flight is never in a state in
\* which it rejects every call however long the caller waits (a rejected call
\* changes nothing, so such a state lasts until a manual reset).
C8_NeverStuck ==
    \A p \in DOMAIN breakers : ~InFlight(p) => ~RejectsForever(breakers[p])

\* C9: a successful operation in Closed sets failure_count to 0, and a breaker
\* leaves Closed only when failure_threshold operations have failed since the
\* last successful one.
C9_ConsecutiveFailures ==
    [][/\ \A c \in Callers :
             ( /\ enabled /\ pc[c] = "running"
               /\ breakers[prov[c]].state = Closed
               /\ Returns(c, prov[c], "ok") )
             => /\ breakers'[prov[c]].failure_count = 0
                /\ breakers'[prov[c]].state = Closed
       /\ \A p \in DOMAIN breakers :
             breakers[p].state = Closed /\ breakers'[p].state # Closed
                => failure_streak'[p] >= breakers[p].failure_threshold
       /\ \A p \in DOMAIN breakers' :
             failure_streak'[p] < breakers'[p].failure_threshold
                => breakers'[p].state = Closed
      ]_vars

\* C9 witness: with failure_threshold = 2 a breaker that has recorded a failure
\* has just had a success and is Closed with failure_count = 0.
C9_Witness ==
    \E p \in DOMAIN breakers, c \in Callers :
        /\ failure_threshold = 2
        /\ breakers[p].last_failure_time # None
        /\ breakers[p].state = Closed
        /\ breakers[p].failure_count = 0
        /\ Returned(c, p, "ok")

\* C10: reset of an existing breaker leaves it Closed with all counters 0 and
\* last_failure_time cleared, so that the next call is admitted; the map keeps
\* its keys and every other breaker is unchanged.
C10_Reset ==
    [][\A p \in Providers :
          ( /\ enabled
            /\ p \in DOMAIN breakers
            /\ returned' = Some([op |-> "reset", provider |-> p, value |-> "ok"]) )
          => /\ DOMAIN breakers' = DOMAIN breakers
             /\ breakers'[p].state = Closed
             /\ breakers'[p].failure_count = 0
             /\ breakers'[p].success_count = 0
             /\ breakers'[p].half_open_calls = 0
             /\ breakers'[p].last_failure_time = None
             /\ admission(breakers'[p]).outcome = "invoke"
             /\ \A q \in DOMAIN breakers \ {p} : breakers'[q] = breakers[q]
      ]_vars

\* C10 witness: a breaker has just been reset while the breaker of another
\* provider is Open; the reset one is Closed and the other still Open.
C10_Witness ==
    \E p, q \in DOMAIN breakers :
        /\ p # q
        /\ returned = Some([op |-> "reset", provider |-> p, value |-> "ok"])
        /\ breakers[p].state = Closed
        /\ breakers[q].state = Open
        /\ breakers[q].failure_count > 0

\* C11: with the manager disabled, call invokes its operation at once and
\* returns the operation's own result, whatever calls failed before; no call is
\* rejected, no breaker is created or changed, the lock is never taken, and
\* get_stats returns None.
C11_DisabledPassThrough ==
    [][~enabled =>
          /\ breakers' = <<>>
          /\ lock' = NoCaller
          /\ \A c \in Callers :
                /\ pc'[c] # "waiting"
                /\ pc[c] = "idle" /\ pc'[c] # "idle"
                      => pc'[c] = "running" /\ invoked' = invoked + 1
                /\ \A p \in Providers :
                      ~Returns(c, p, "open") /\ ~Returns(c, p, "limit")
          /\ \A c \in Callers, ok \in BOOLEAN :
                Complete(c, ok) => Returns(c, prov[c], IF ok THEN "ok" ELSE "err")
          /\ \A p \in Providers :
                GetStats(p) => returned' = Some([op |-> "get_stats", provider |-> p,
                                                 value |-> None])
      ]_vars

\* C11 witness: with the manager disabled and failure_threshold = 2, two
\* operations for a provider have failed in a row and the next call for it has
\* its operation invoked; no breaker exists.
C11_Witness ==
    \E c \in Callers :
        /\ ~enabled
        /\ failure_threshold = 2
        /\ pc[c] = "running"
        /\ failure_streak[prov[c]] = 2
        /\ breakers = <<>>

\* C12 (as claimed): the breaker get_or_create_breaker hands out for a provider
\* is the breaker stored for that provider, the one call, get_stats and reset
\* work on.
C12_SameBreaker ==
    \A p \in Providers :
        \A v \in {new(failure_threshold, timeout_duration, half_open_max_calls)}
                 \cup {breakers[q] : q \in DOMAIN breakers} :
            returned = Some([op |-> "get_or_create_breaker", provider |-> p, value |-> v])
               => p \in DOMAIN breakers /\ v = breakers[p]

\* The dispatch call in progress (or the last one finished) is a search /
\* a multi_search, with or without a named provider.
IsSearch == request # None /\ request[1].fn = "search"
IsMultiSearch == request # None /\ request[1].fn = "multi_search"
Unnamed == request # None /\ request[1].preferred_provider = None
Named(n) == request # None /\ request[1].preferred_provider = Some(n)
Finished == request # None /\ response # None
Invoked == [i \in DOMAIN adapter_calls |-> adapter_calls[i].provider]

\* The registered names of the documented priority order, in that order.
PriorityCandidates ==
    SelectSeq(<<"tavily", "google", "duckduckgo", "reddit", "exa", "brave">>,
              LAMBDA n : n \in providers)

\* The call has stopped at the first adapter that succeeded: only the last
\* adapter invoked can have succeeded, nothing is awaited after a success, and
\* the response is that provider's results with providers_used = [it].
StopsAtFirstSuccess ==
    /\ \A i \in DOMAIN adapter_calls :
          i < Len(adapter_calls) => adapter_calls[i].outcome = "err"
    /\ awaiting # NoProvider =>
          /\ response = None
          /\ adapter_calls # <<>>
          /\ adapter_calls[Len(adapter_calls)] = [provider |-> awaiting, outcome |-> "pending"]
    /\ awaiting = NoProvider =>
          \A i \in DOMAIN adapter_calls : adapter_calls[i].outcome # "pending"
    /\ \A i \in DOMAIN adapter_calls :
          adapter_calls[i].outcome = "ok" =>
             response = Some(Ok(results(adapter_calls[i].provider, request[1].query),
                                <<adapter_calls[i].provider>>, request[1].query))
    /\ Finished /\ response[1].ok =>
          /\ adapter_calls # <<>>
          /\ adapter_calls[Len(adapter_calls)].outcome = "ok"

\* C13: search without a named provider invokes the registered names of
\* (tavily, google, duckduckgo, reddit, exa, brave) in that order, each at most
\* once, goes on only after a failure, and stops at the first success with that
\* provider's results and providers_used = [that provider].
C13_PriorityOrder ==
    IsSearch /\ Unnamed =>
       /\ Len(Invoked) <= Len(PriorityCandidates)
       /\ Invoked = SubSeq(PriorityCandidates, 1, Len(Invoked))
       /\ StopsAtFirstSuccess
       /\ Finished /\ ~response[1].ok => Invoked = PriorityCandidates

\* C13 witness: tavily, duckduckgo and reddit are registered; tavily and
\* duckduckgo failed, reddit succeeded and search returned reddit's results.
C13_Witness ==
    /\ IsSearch /\ Unnamed
    /\ {"tavily", "duckduckgo", "reddit"} \subseteq providers
    /\ adapter_calls = << [provider |-> "tavily", outcome |-> "err"],
                          [provider |-> "duckduckgo", outcome |-> "err"],
                          [provider |-> "reddit", outcome |-> "ok"] >>
    /\ response = Some(Ok(results("reddit", request[1].query), <<"reddit">>,
                          request[1].query))

\* C14: when every candidate of a search without a named provider has failed,
\* search returns the error of the last provider it tried; the end of search
\* with no error recorded (no candidate) is the 'No providers available' error;
\* a failed search leaves the cache as it was.
C14_LastError ==
    /\ terminal(None) =
          ProviderError("ProviderError", "No providers available for search", "client")
    /\ IsSearch /\ Unnamed /\ Finished /\ ~response[1].ok =>
          /\ \A i \in DOMAIN adapter_calls : adapter_calls[i].outcome = "err"
          /\ adapter_calls # <<>> =>
                response = Some(Err(adapter_error(Invoked[Len(Invoked)])))
          /\ adapter_calls = <<>> => response = Some(Err(terminal(None)))
          /\ cache = <<>>

\* C14 witness: tavily and duckduckgo are the candidates, both failed, and
\* search returned duckduckgo's error.
C14_Witness ==
    /\ IsSearch /\ Unnamed
    /\ adapter_calls = << [provider |-> "tavily", outcome |-> "err"],
                          [provider |-> "duckduckgo", outcome |-> "err"] >>
    /\ response = Some(Err(adapter_error("duckduckgo")))
    /\ cache = <<>>

\* C15: a search or multi_search that names a provider that is not registered
\* has returned an InvalidInput error at once: it never awaits an adapter and
\* has invoked none.
C15_UnknownPreferred ==
    \A n \in PreferredNames :
        Named(n) /\ n \notin providers =>
           /\ awaiting = NoProvider
           /\ adapter_calls = <<>>
           /\ Finished
           /\ ~response[1].ok
           /\ response[1].error.error_type = "InvalidInput"
           /\ response[1].error.provider = "client"

\* C15 witness: tavily and duckduckgo are registered, a multi_search named
\* "google", which is no key of the registry, and got InvalidInput with no
\* adapter invoked.
C15_Witness ==
    /\ IsMultiSearch
    /\ Named("google")
    /\ {"tavily", "duckduckgo"} \subseteq providers
    /\ request[1].max_providers = MaxProviders
    /\ adapter_calls = <<>>
    /\ response = Some(Err(ProviderError("InvalidInput",
                                         "Preferred provider not available", "client")))

\* C16: a search or multi_search that names a registered provider invokes that
\* provider's adapter, once, and no other adapter; when the adapter fails the
\* call returns an error, when it succeeds the call returns its results.
C16_OnlyPreferred ==
    \A n \in PreferredNames :
        Named(n) /\ n \in providers =>
           /\ Invoked = <<n>>
           /\ awaiting \in {n, NoProvider}
           /\ StopsAtFirstSuccess
           /\ Finished /\ adapter_calls[1].outcome = "err" => ~response[1].ok
           /\ Finished /\ adapter_calls[1].outcome = "err" /\ IsSearch =>
                 response = Some(Err(adapter_error(n)))

\* C16 witness: tavily, duckduckgo and reddit are registered, a multi_search
\* named reddit with max_providers = MaxProviders, reddit failed, and the call
\* returned an error having invoked reddit alone.
C16_Witness ==
    /\ IsMultiSearch
    /\ Named("reddit")
    /\ request[1].max_providers = MaxProviders
    /\ {"tavily", "duckduckgo", "reddit"} \subseteq providers
    /\ adapter_calls = << [provider |-> "reddit", outcome |-> "err"] >>
    /\ Finished
    /\ ~response[1].ok

\* The step invokes the adapter of provider p.
Invokes(p) ==
    /\ p # NoProvider
    /\ awaiting' = p
    /\ adapter_calls' # adapter_calls
    /\ adapter_calls' # <<>>
    /\ adapter_calls'[Len(adapter_calls')] = [provider |-> p, outcome |-> "pending"]

\* Provider p's breaker is Open and its timeout has not elapsed.
BreakerOpenInsideWindow(p) ==
    /\ enabled
    /\ p \in DOMAIN breakers
    /\ breakers[p].state = Open
    /\ breakers[p].state_changed_at < breakers[p].timeout_duration

\* C17 (as claimed): when a search has succeeded, an identical search made next
\* (no time has passed, so inside any TTL) returns the same results without
\* invoking an adapter and without touching a breaker or a limiter.
C17_CacheFirst ==
    [][( /\ IsSearch /\ Finished
         /\ response[1].ok
         /\ request' = request )
       => /\ response' = response
          /\ awaiting' = NoProvider
          /\ adapter_calls' = <<>>
          /\ breakers' = breakers
          /\ limiters' = limiters
      ]_vars

\* C18 (as claimed): no adapter is invoked while its provider's breaker is Open
\* with the timeout not elapsed, and the return of an adapter is recorded in
\* its provider's breaker as a success or a failure.
C18_BreakerGate ==
    [][/\ \A p \in providers : Invokes(p) => ~BreakerOpenInsideWindow(p)
       /\ \A ok \in BOOLEAN :
             ( /\ enabled
               /\ awaiting # NoProvider
               /\ adapter_calls' # adapter_calls
               /\ adapter_calls'[Len(adapter_calls)].outcome = IF ok THEN "ok" ELSE "err" )
             => /\ awaiting \in DOMAIN breakers
                /\ awaiting \in DOMAIN breakers'
                /\ breakers'[awaiting] =
                      IF ok THEN on_success(breakers[awaiting])
                      ELSE on_failure(breakers[awaiting])
      ]_vars

\* C19 (as claimed): no adapter is invoked for a provider whose limiter denies
\* the request that check_rate_limit would make for it.
C19_LimiterGate ==
    [][\A p \in providers : Invokes(p) => check_rate_limit(limiters, p).ok]_vars

\* C20 (as claimed): a multi_search invokes at most max_providers adapters,
\* stops at the first success with that provider's results and
\* providers_used = [that provider], and returns an error when no adapter it
\* invoked succeeded.
C20_Bounded ==
    IsMultiSearch =>
       /\ Len(adapter_calls) <= request[1].max_providers
       /\ StopsAtFirstSuccess
       /\ ( /\ Finished
            /\ \A i \in DOMAIN adapter_calls : adapter_calls[i].outcome = "err" )
          => ~response[1].ok

\* C21 (as claimed): a multi_search without a named provider invokes, in
\* order, registered providers out of the first max_providers of the priority
\* order that search uses, so that what it invokes is fixed by the set of
\* registered providers and max_providers.
C21_SamePriorityOrder ==
    IsMultiSearch /\ Unnamed =>
       LET selected == take(PriorityCandidates, request[1].max_providers) IN
       /\ Len(Invoked) <= Len(selected)
       /\ Invoked = SubSeq(selected, 1, Len(Invoked))

\* ------------------------------------------- MemoryCache / CacheManager

\* The keys, values and ttl arguments callers pass.
CacheKeys == {"k1", "k2"}
CacheValues == {"v1", "v2"}
Ttls == 1..MaxTtl

\* The circuit breaker manager right after CircuitBreakerManager::new.
ManagerAtRest ==
    /\ enabled = TRUE
    /\ failure_threshold = MaxThreshold
    /\ timeout_duration = TimeoutTicks
    /\ half_open_max_calls = MaxHalfOpen
    /\ breakers = <<>>
    /\ lock = NoCaller
    /\ pc = [c \in Callers |-> "idle"]
    /\ prov = [c \in Callers |-> NoProvider]
    /\ invoked = 0
    /\ returned = None
    /\ fresh_failures = [p \in Providers |-> 0]
    /\ failure_streak = [p \in Providers |-> 0]
    /\ episode_trials = [p \in Providers |-> 0]
    /\ episode_callers = [p \in Providers |-> {}]

\* The MemoryCache is a moka::future::Cache built with
\* max_capacity(max_entries) and time_to_live(ttl_seconds). Of moka the model
\* keeps its contract: get never returns an entry older than time_to_live or
\* invalidated; insert and remove act on the map at once; entries over
\* max_capacity are evicted by the housekeeping that cache operations run
\* from time to time, where the admission policy (TinyLFU) decides which
\* entries stay, the newly inserted ones included; entry_count() is the
\* number of entries as of the last housekeeping; invalidate_all() hides
\* every entry at once and leaves their removal to housekeeping.

\* An entry older than the cache's time_to_live.
expired(e) == e.age >= ttl_seconds

\* MokaCache::get
moka_get(store, k) ==
    IF k \in DOMAIN store /\ ~expired(store[k]) THEN Some(store[k].value) ELSE None

\* MokaCache::insert that keeps the entry of a key it already holds.
moka_insert_if_absent(store, k, v, ttl) ==
    IF k \in DOMAIN store THEN store
    ELSE insert(store, k, [value |-> v, age |-> 0, ttl |-> ttl])

\* MokaCache::insert as MemoryCache::set calls it: `_ttl` is not passed on; the
\* entry notes it for the record only.
moka_insert(store, k, v, ttl) ==
    insert(store, k, [value |-> v, age |-> 0, ttl |-> ttl])

\* MokaCache::remove
moka_remove(store, k) == [x \in DOMAIN store \ {k} |-> store[x]]

\* MokaCache::invalidate_all
invalidate_all(store) == <<>>

\* The stores moka's housekeeping can leave: expired entries are removed and,
\* over max_capacity, as many entries as fit are kept.
run_pending_tasks(store) ==
    LET live == {k \in DOMAIN store : ~expired(store[k])}
        room == IF Cardinality(live) < max_entries THEN Cardinality(live) ELSE max_entries
    IN {[k \in keep |-> store[k]] : keep \in {K \in SUBSET live : Cardinality(K) = room}}

\* A cache operation runs the housekeeping (hk) or not: st is the store it
\* leaves to the operation.
Housekeeping(hk, store, st) ==
    /\ IF hk THEN st \in run_pending_tasks(store) ELSE st = store
    /\ entry_count' = IF hk THEN Cardinality(DOMAIN st) ELSE entry_count

\* What no cache operation touches.
cache_frame ==
    <<providers, keys, dispatch, cache_enabled, ttl_seconds, max_entries,
      rate_limiting, metrics_state, key_log, config, breakers, lock, pc, prov,
      history>>

\* CacheManager::new for a memory cache, enabled or not.
CacheInit ==
    /\ cache_enabled \in BOOLEAN
    /\ ttl_seconds \in Ttls
    /\ max_entries \in 0..MaxEntries
    /\ cache = <<>>
    /\ entry_count = 0
    /\ DispatcherAtRest
    /\ LimiterAtRest
    /\ MetricsAtRest
    /\ key_log = <<>>
    /\ ManagerAtRest

\* Time passes: every entry is one tick older.
CacheTick ==
    /\ cache' = [k \in DOMAIN cache |-> [cache[k] EXCEPT !.age = later(@, MaxTtl)]]
    /\ returned' = None
    /\ UNCHANGED <<entry_count, cache_frame>>

\* CacheManager::get -> MemoryCache::get. The value is read, then the read may
\* run the housekeeping.
CacheGet(k, hk) ==
    /\ returned' = Some([op |-> "get", key |-> k,
                         value |-> IF cache_enabled THEN moka_get(cache, k) ELSE None])
    /\ IF cache_enabled
       THEN \E st \in IF hk THEN run_pending_tasks(cache) ELSE {cache} :
               /\ Housekeeping(hk, cache, st)
               /\ cache' = st
       ELSE UNCHANGED <<cache, entry_count>>
    /\ UNCHANGED cache_frame

\* CacheSet without the `if !self.enabled` early return.
CacheSet_unguarded(k, v, ttl, hk) ==
    /\ returned' = Some([op |-> "set", key |-> k, value |-> v, ttl |-> ttl,
                         result |-> "ok"])
    /\ cache' = moka_insert(cache, k, v, ttl)
    /\ UNCHANGED <<entry_count, cache_frame>>

\* CacheManager::set -> MemoryCache::set(key, value, ttl), or MemoryCache::set
\* called through the CacheProvider trait with a ttl of the caller's
\* (CacheManager passes CONFIG.cache.ttl_seconds). The write may first run the
\* housekeeping for the operations before it.
CacheSet(k, v, ttl, hk) ==
    /\ returned' = Some([op |-> "set", key |-> k, value |-> v, ttl |-> ttl,
                         result |-> "ok"])
    /\ IF cache_enabled
       THEN \E st \in IF hk THEN run_pending_tasks(cache) ELSE {cache} :
               /\ Housekeeping(hk, cache, st)
               /\ cache' = moka_insert(st, k, v, ttl)
       ELSE UNCHANGED <<cache, entry_count>>
    /\ UNCHANGED cache_frame

\* CacheManager::delete -> MemoryCache::delete
CacheDelete(k, hk) ==
    /\ returned' = Some([op |-> "delete", key |-> k, result |-> "ok"])
    /\ IF cache_enabled
       THEN \E st \in IF hk THEN run_pending_tasks(cache) ELSE {cache} :
               /\ Housekeeping(hk, cache, st)
               /\ cache' = moka_remove(st, k)
       ELSE UNCHANGED <<cache, entry_count>>
    /\ UNCHANGED cache_frame

\* CacheManager::clear -> MemoryCache::clear
CacheClear ==
    /\ returned' = Some([op |-> "clear", result |-> "ok"])
    /\ cache' = IF cache_enabled THEN invalidate_all(cache) ELSE cache
    /\ UNCHANGED <<entry_count, cache_frame>>

\* CacheManager::size -> MemoryCache::size
CacheSize ==
    /\ returned' = Some([op |-> "size",
                         value |-> IF cache_enabled THEN entry_count ELSE 0])
    /\ UNCHANGED <<cache, entry_count, cache_frame>>

CacheNext ==
    \/ CacheTick
    \/ \E k \in CacheKeys, hk \in BOOLEAN : CacheGet(k, hk)
    \/ \E k \in CacheKeys, v \in CacheValues, ttl \in Ttls, hk \in BOOLEAN :
          CacheSet(k, v, ttl, hk)
    \/ \E k \in CacheKeys, hk \in BOOLEAN : CacheDelete(k, hk)
    \/ CacheClear
    \/ CacheSize

CacheSpec == CacheInit /\ [][CacheNext]_vars

\* The last step / this step was the cache operation op.
Did(op) == returned # None /\ returned[1].op = op
Does(op) == returned' # None /\ returned'[1].op = op

C23_PerEntryTtl ==
    [][( /\ cache_enabled
         /\ Does("get")
         /\ returned'[1].key \in DOMAIN cache )
       => LET e == cache[returned'[1].key] IN
          /\ e.age < e.ttl => returned'[1].value = Some(e.value)
          /\ e.age >= e.ttl => returned'[1].value = None
      ]_vars

\* The entries get can return.
Live == {k \in DOMAIN cache : ~expired(cache[k])}

\* C24 (as claimed): the store never holds more than max_entries live entries.
C24_EvictsInstead ==
    cache_enabled => Cardinality(Live) <= max_entries

\* C25 (as claimed): right after clear, size returns 0 and get returns none.
C25_ClearEmpties ==
    [][( /\ cache_enabled /\ Did("clear") )
       => /\ Does("size") => returned'[1].value = 0
          /\ Does("get") => returned'[1].value = None
      ]_vars

\* C26: with the cache disabled no operation touches the store, which stays
\* empty; get returns none, size returns 0, and set, delete and clear return Ok.
C26_DisabledCache ==
    [][~cache_enabled =>
          /\ cache = <<>> /\ cache' = <<>>
          /\ entry_count' = 0
          /\ Does("get") => returned'[1].value = None
          /\ Does("size") => returned'[1].value = 0
          /\ Does("set") \/ Does("delete") \/ Does("clear")
                => returned'[1].result = "ok"
      ]_vars

\* C26 witness: the cache is disabled, a set has just returned Ok and the store
\* is empty.
C26_Witness ==
    /\ ~cache_enabled
    /\ Did("set")
    /\ returned[1].result = "ok"
    /\ cache = <<>>
    /\ entry_count = 0

\* ------------------------------------- CacheManager::generate_cache_key

\* A &str is the sequence of its characters. The arguments are drawn from the
\* strings over a letter and the separator of the format string.
Chars == {"a", ":"}
Strings == UNION {[1..n -> Chars] : n \in 0..MaxStringLen}

\* The claims about generate_cache_key relate two calls.
KeyCalls == 2

\* The literal head of format!("omnisearch:{}:{:x}", ..).
omnisearch == <<"o", "m", "n", "i", "s", "e", "a", "r", "c", "h", ":">>

\* format!("{}:{}:{}", provider, query, params) with the query left out.
hashed_without_query(provider, query, params) ==
    provider \o <<":">> \o <<":">> \o params

\* format!("{}:{}:{}", provider, query, params): the string that is hashed.
hashed(provider, query, params) ==
    provider \o <<":">> \o query \o <<":">> \o params

\* DefaultHasher::new(): SipHash-1-3 with both keys 0, nothing written yet.
DefaultHasher_new == [k0 |-> 0, k1 |-> 0, written |-> <<>>]

\* <String as Hash>::hash: writes the bytes of the string, then the byte 0xff.
hash(s, hasher) == [hasher EXCEPT !.written = @ \o s \o <<"0xff">>]

\* Hasher::finish: the 64-bit value SipHash-1-3 computes from the keys and the
\* bytes written. The value stands for itself as "the hash of these keys and
\* bytes": two values are equal exactly when keys and bytes are, so collisions
\* of the 64-bit hash between different byte strings are not modelled.
finish(hasher) == [siphash13 |-> hasher]

\* CacheManager::generate_cache_key. The key returned is the text
\* "omnisearch:<provider>:" followed by the lower-case hex digits ({:x}) of the
\* hash; hex digits hold no ':', so the two parts determine the key string and
\* are determined by it.
generate_cache_key(provider, query, params) ==
    LET hasher == hash(hashed(provider, query, params), DefaultHasher_new)
    IN [text |-> omnisearch \o provider \o <<":">>,
        hex |-> finish(hasher)]

\* What no call of generate_cache_key touches (it is an associated function
\* without self).
key_frame ==
    <<providers, keys, dispatch, cache_store, rate_limiting, metrics_state,
      config, breakers, lock, pc, prov, history>>

\* No key has been generated; everything else is at rest.
KeyInit ==
    /\ ClientAtRest
    /\ ManagerAtRest

\* One call of CacheManager::generate_cache_key(provider, query, params).
GenerateCacheKey(provider, query, params) ==
    /\ Len(key_log) < KeyCalls
    /\ key_log' = Append(key_log,
                         [provider |-> provider, query |-> query, params |-> params,
                          hashed |-> hashed(provider, query, params),
                          key |-> generate_cache_key(provider, query, params)])
    /\ returned' = Some(generate_cache_key(provider, query, params))
    /\ UNCHANGED key_frame

KeyNext ==
    \E provider \in Strings, query \in Strings, params \in Strings :
        GenerateCacheKey(provider, query, params)

KeySpec == KeyInit /\ [][KeyNext]_vars

\* The arguments of a logged call.
args(call) == <<call.provider, call.query, call.params>>

C28_DistinctHashed ==
    \A i, j \in DOMAIN key_log :
        args(key_log[i]) # args(key_log[j])
            => key_log[i].hashed # key_log[j].hashed

\* ---------------------------------------------------- RateLimiterManager

\* The Arc<ProviderRateLimiter> instances that can exist at once: one per
\* registered name, one per caller holding a limiter removed from the map, and
\* the one being created.
Instances == 0..(Cardinality(Providers) + Cardinality(Callers))
NoInstance == -1

\* The functions of RateLimiterManager.
LimiterFns == {"get_or_create_limiter", "check_rate_limit", "wait_for_rate_limit",
               "reset_limiter", "get_limiter_stats"}

\* A call of fn(provider) in progress: at "lock" it awaits
\* self.limiters.write() / read(), at "until_ready" it awaits
\* limiter.until_ready() on the instance it holds. first is history: the map
\* had no limiter of the name when the call was made.
call(fn, p, at, limiter, first) ==
    [fn |-> fn, provider |-> p, at |-> at, limiter |-> limiter, first |-> first]

\* What a call returns: result is "Ok" or the error message ("Some"/"None" for
\* get_limiter_stats), limiter the instance the call got from
\* get_or_create_limiter.
result(fn, p, res, limiter, first) ==
    [fn |-> fn, provider |-> p, result |-> res, limiter |-> limiter, first |-> first]

\* eyre!("Rate limit must be greater than 0")
RateLimitZero == "Rate limit must be greater than 0"

\* eyre!("Rate limit exceeded for provider: {}", provider)
RateLimitExceeded == "Rate limit exceeded for provider"

\* HashMap::remove
remove(m, k) == [x \in DOMAIN m \ {k} |-> m[x]]

\* The caller c is idle / awaits the lock in fn(p) / awaits until_ready.
idle(c) == limiter_calls[c] = None
at_lock(c, fn, p) ==
    /\ limiter_calls[c] # None
    /\ limiter_calls[c][1].fn = fn
    /\ limiter_calls[c][1].provider = p
    /\ limiter_calls[c][1].at = "lock"
at_until_ready(c) ==
    /\ limiter_calls[c] # None
    /\ limiter_calls[c][1].at = "until_ready"

\* The instances some caller holds while it awaits until_ready.
held(calls) == {calls[c][1].limiter : c \in {x \in Callers : calls[x] # None /\ calls[x][1].at = "until_ready"}}

\* Arc::new: an instance that is none of the existing ones.
fresh_instance ==
    LET in_use == {limiter_ids[p] : p \in DOMAIN limiter_ids}
                    \cup DOMAIN detached \cup held(limiter_calls)
    IN CHOOSE i \in Instances :
          /\ i \notin in_use
          /\ \A j \in Instances : j < i => j \in in_use

\* get_or_create_limiter without the lookup: a new limiter is made and stored
\* at every call.
get_or_create_limiter_always_creates(ls, ids, p) ==
    [limiters |-> insert(ls, p, direct(get_provider_rate_limit(p))),
     limiter_ids |-> insert(ids, p, fresh_instance),
     limiter |-> fresh_instance, ok |-> TRUE]

\* RateLimiterManager::get_or_create_limiter under the write guard, rate
\* limiting enabled: the map afterwards and the instance returned, or, when
\* NonZeroU32::new(rate_limit) is None, the error (ok is FALSE, the map as it
\* was).
get_or_create_limiter(ls, ids, p) ==
    IF p \in DOMAIN ls
    THEN [limiters |-> ls, limiter_ids |-> ids, limiter |-> ids[p], ok |-> TRUE]
    ELSE IF get_provider_rate_limit(p) = 0
    THEN [limiters |-> ls, limiter_ids |-> ids, limiter |-> NoInstance, ok |-> FALSE]
    ELSE [limiters |-> insert(ls, p, direct(get_provider_rate_limit(p))),
          limiter_ids |-> insert(ids, p, fresh_instance),
          limiter |-> fresh_instance, ok |-> TRUE]

\* The history of admissions after get_or_create_limiter(p): a limiter just
\* created has admitted nothing.
created(p) ==
    IF p \in DOMAIN limiters THEN fresh_admitted ELSE [fresh_admitted EXCEPT ![p] = 0]

\* One more request admitted by the registered limiter of p.
admitted(fa, p) == [fa EXCEPT ![p] = IF @ >= 0 THEN @ + 1 ELSE @]

\* What no step of the limiter manager touches.
limiter_frame ==
    <<providers, keys, dispatch, cache_store, metrics_state, key_log,
      limiter_enabled, provider_rate_limit, config, breakers, lock, pc, prov, history>>

\* RateLimiterManager::new, rate limiting enabled or not; everything else at
\* rest.
LimiterInit ==
    /\ limiter_enabled \in BOOLEAN
    /\ provider_rate_limit = RateLimit
    /\ limiters = <<>>
    /\ limiter_ids = <<>>
    /\ detached = <<>>
    /\ limiter_calls = [c \in Callers |-> None]
    /\ fresh_admitted = [p \in Providers |-> 0]
    /\ DispatcherAtRest
    /\ CacheAtRest
    /\ MetricsAtRest
    /\ key_log = <<>>
    /\ ManagerAtRest

\* LimiterCall when no function returns early on `!self.enabled`.
LimiterCall_unguarded(c, fn, p) ==
    /\ idle(c)
    /\ limiter_calls' = [limiter_calls EXCEPT
                            ![c] = Some(call(fn, p, "lock", NoInstance,
                                             p \notin DOMAIN limiters))]
    /\ returned' = None
    /\ UNCHANGED <<limiters, limiter_ids, detached, fresh_admitted, limiter_frame>>

\* A caller makes a call that goes to the lock of the map: every call when rate
\* limiting is enabled, reset_limiter in any case.
LimiterCall(c, fn, p) ==
    /\ idle(c)
    /\ limiter_enabled \/ fn = "reset_limiter"
    /\ limiter_calls' = [limiter_calls EXCEPT
                            ![c] = Some(call(fn, p, "lock", NoInstance,
                                             p \notin DOMAIN limiters))]
    /\ returned' = None
    /\ UNCHANGED <<limiters, limiter_ids, detached, fresh_admitted, limiter_frame>>

\* RateLimiterManager::get_or_create_limiter: disabled, a permissive limiter
\* that is stored nowhere; enabled, the body under the write guard.
GetOrCreateLimiter(c, p) ==
    \/ /\ ~limiter_enabled
       /\ idle(c)
       /\ returned' = Some(result("get_or_create_limiter", p, "Ok", fresh_instance, FALSE))
       /\ UNCHANGED <<limiters, limiter_ids, detached, limiter_calls,
                      fresh_admitted, limiter_frame>>
    \/ /\ at_lock(c, "get_or_create_limiter", p)
       /\ LET g == get_or_create_limiter(limiters, limiter_ids, p)
          IN /\ limiters' = g.limiters
             /\ limiter_ids' = g.limiter_ids
             /\ fresh_admitted' = IF g.ok THEN created(p) ELSE fresh_admitted
             /\ returned' = Some(result("get_or_create_limiter", p,
                                        IF g.ok THEN "Ok" ELSE RateLimitZero,
                                        g.limiter, limiter_calls[c][1].first))
       /\ limiter_calls' = [limiter_calls EXCEPT ![c] = None]
       /\ UNCHANGED <<detached, limiter_frame>>

\* RateLimiterManager::check_rate_limit: get_or_create_limiter, then
\* limiter.check().
CheckRateLimit(c, p) ==
    \/ /\ ~limiter_enabled
       /\ idle(c)
       /\ returned' = Some(result("check_rate_limit", p, "Ok", NoInstance, FALSE))
       /\ UNCHANGED <<limiters, limiter_ids, detached, limiter_calls,
                      fresh_admitted, limiter_frame>>
    \/ /\ at_lock(c, "check_rate_limit", p)
       /\ LET g == get_or_create_limiter(limiters, limiter_ids, p)
              chk == check(g.limiters[p])
          IN IF g.ok
             THEN /\ limiters' = insert(g.limiters, p, chk.limiter)
                  /\ limiter_ids' = g.limiter_ids
                  /\ fresh_admitted' = IF chk.ok THEN admitted(created(p), p) ELSE created(p)
                  /\ returned' = Some(result("check_rate_limit", p,
                                             IF chk.ok THEN "Ok" ELSE RateLimitExceeded,
                                             g.limiter, limiter_calls[c][1].first))
             ELSE /\ UNCHANGED <<limiters, limiter_ids, fresh_admitted>>
                  /\ returned' = Some(result("check_rate_limit", p, RateLimitZero,
                                             NoInstance, limiter_calls[c][1].first))
       /\ limiter_calls' = [limiter_calls EXCEPT ![c] = None]
       /\ UNCHANGED <<detached, limiter_frame>>

\* RateLimiterManager::wait_for_rate_limit up to limiter.until_ready().await.
WaitForRateLimit(c, p) ==
    \/ /\ ~limiter_enabled
       /\ idle(c)
       /\ returned' = Some(result("wait_for_rate_limit", p, "Ok", NoInstance, FALSE))
       /\ UNCHANGED <<limiters, limiter_ids, detached, limiter_calls,
                      fresh_admitted, limiter_frame>>
    \/ /\ at_lock(c, "wait_for_rate_limit", p)
       /\ LET g == get_or_create_limiter(limiters, limiter_ids, p)
          IN IF g.ok
             THEN /\ limiters' = g.limiters
                  /\ limiter_ids' = g.limiter_ids
                  /\ fresh_admitted' = created(p)
                  /\ limiter_calls' = [limiter_calls EXCEPT
                                          ![c] = Some(call("wait_for_rate_limit", p, "until_ready",
                                                           g.limiter, limiter_calls[c][1].first))]
                  /\ returned' = None
             ELSE /\ UNCHANGED <<limiters, limiter_ids, fresh_admitted>>
                  /\ limiter_calls' = [limiter_calls EXCEPT ![c] = None]
                  /\ returned' = Some(result("wait_for_rate_limit", p, RateLimitZero,
                                             NoInstance, limiter_calls[c][1].first))
       /\ UNCHANGED <<detached, limiter_frame>>

\* limiter.until_ready() completes: the instance the caller holds has a cell
\* free and the caller takes it. The instance is the registered one of its
\* provider, or one that reset_limiter removed from the map meanwhile; the
\* latter is dropped with its last holder.
UntilReady(c) ==
    /\ at_until_ready(c)
    /\ LET w == limiter_calls[c][1]
           p == w.provider
           registered_one == p \in DOMAIN limiter_ids /\ limiter_ids[p] = w.limiter
           l == IF registered_one THEN limiters[p] ELSE detached[w.limiter]
           others == [limiter_calls EXCEPT ![c] = None]
       IN /\ check(l).ok
          /\ limiter_calls' = others
          /\ IF registered_one
             THEN /\ limiters' = [limiters EXCEPT ![p] = check(l).limiter]
                  /\ fresh_admitted' = admitted(fresh_admitted, p)
                  /\ UNCHANGED detached
             ELSE /\ detached' = IF w.limiter \in held(others)
                                 THEN [detached EXCEPT ![w.limiter] = check(l).limiter]
                                 ELSE remove(detached, w.limiter)
                  /\ UNCHANGED <<limiters, fresh_admitted>>
          /\ returned' = Some(result("wait_for_rate_limit", p, "Ok", w.limiter, w.first))
    /\ UNCHANGED <<limiter_ids, limiter_frame>>

\* RateLimiterManager::reset_limiter under the write guard: the entry is
\* removed; the limiter lives on while a caller awaiting until_ready holds it.
ResetLimiter(c, p) ==
    /\ at_lock(c, "reset_limiter", p)
    /\ limiters' = remove(limiters, p)
    /\ limiter_ids' = remove(limiter_ids, p)
    /\ detached' = IF p \in DOMAIN limiters /\ limiter_ids[p] \in held(limiter_calls)
                   THEN insert(detached, limiter_ids[p], limiters[p])
                   ELSE detached
    /\ fresh_admitted' = [fresh_admitted EXCEPT ![p] = 0]
    /\ limiter_calls' = [limiter_calls EXCEPT ![c] = None]
    /\ returned' = Some(result("reset_limiter", p, "Ok", NoInstance, FALSE))
    /\ UNCHANGED limiter_frame

\* RateLimiterManager::get_limiter_stats: None when disabled or when the map
\* has no limiter of the name.
GetLimiterStats(c, p) ==
    \/ /\ ~limiter_enabled
       /\ idle(c)
       /\ returned' = Some(result("get_limiter_stats", p, "None", NoInstance, FALSE))
       /\ UNCHANGED <<limiters, limiter_ids, detached, limiter_calls,
                      fresh_admitted, limiter_frame>>
    \/ /\ at_lock(c, "get_limiter_stats", p)
       /\ returned' = Some(result("get_limiter_stats", p,
                                  IF p \in DOMAIN limiters THEN "Some" ELSE "None",
                                  NoInstance, FALSE))
       /\ limiter_calls' = [limiter_calls EXCEPT ![c] = None]
       /\ UNCHANGED <<limiters, limiter_ids, detached, fresh_admitted, limiter_frame>>

\* One replenishment interval (60s / rate_limit) passes: every limiter gets one
\* cell back.
replenish(l) == [l EXCEPT !.used = IF @ > 0 THEN @ - 1 ELSE 0]
LimiterTick ==
    /\ limiters' = [p \in DOMAIN limiters |-> replenish(limiters[p])]
    /\ detached' = [i \in DOMAIN detached |-> replenish(detached[i])]
    /\ fresh_admitted' = [p \in Providers |->
                             IF p \in DOMAIN limiters THEN -1 ELSE fresh_admitted[p]]
    /\ returned' = None
    /\ UNCHANGED <<limiter_ids, limiter_calls, limiter_frame>>

LimiterNext ==
    \/ \E c \in Callers, fn \in LimiterFns, p \in Providers : LimiterCall(c, fn, p)
    \/ \E c \in Callers, p \in Providers : GetOrCreateLimiter(c, p)
    \/ \E c \in Callers, p \in Providers : CheckRateLimit(c, p)
    \/ \E c \in Callers, p \in Providers : WaitForRateLimit(c, p)
    \/ \E c \in Callers : UntilReady(c)
    \/ \E c \in Callers, p \in Providers : ResetLimiter(c, p)
    \/ \E c \in Callers, p \in Providers : GetLimiterStats(c, p)
    \/ LimiterTick

LimiterSpec == LimiterInit /\ [][LimiterNext]_vars

\* The call fn(p) of caller c leaves the lock of the map in this step.
Passes(c, fn, p) == at_lock(c, fn, p) /\ limiter_calls'[c] # limiter_calls[c]

\* C29: with rate limiting enabled a limiter admits at most its quota of
\* requests before a replenishment interval has passed since its creation; a
\* check_rate_limit made when the quota has been admitted returns the
\* "Rate limit exceeded" error in its step (it never awaits until_ready), and a
\* check that is denied leaves the limiter as it was.
C29_AtMostQuota ==
    [][limiter_enabled =>
        \A p \in Providers :
            /\ fresh_admitted'[p] <= get_provider_rate_limit(p)
            /\ \A c \in Callers :
                  Passes(c, "check_rate_limit", p)
                  => /\ limiter_calls'[c] = None
                     /\ returned' # None
                     /\ returned'[1].fn = "check_rate_limit"
                     /\ ( /\ p \in DOMAIN limiters
                          /\ fresh_admitted[p] = get_provider_rate_limit(p) )
                           => returned'[1].result = RateLimitExceeded
                     /\ returned'[1].result = RateLimitExceeded
                           => /\ p \in DOMAIN limiters
                              /\ limiters' = limiters
                              /\ fresh_admitted' = fresh_admitted
      ]_vars

\* A check_rate_limit has just been denied by a limiter that admitted its
\* quota with no replenishment interval passed since its creation.
C29_Witness ==
    /\ limiter_enabled
    /\ returned # None
    /\ DOMAIN returned[1] = DOMAIN result("", "", "", NoInstance, FALSE)
    /\ returned[1].fn = "check_rate_limit"
    /\ returned[1].result = RateLimitExceeded
    /\ fresh_admitted[returned[1].provider] = get_provider_rate_limit(returned[1].provider)

\* The functions that go through get_or_create_limiter.
Referring == {"get_or_create_limiter", "check_rate_limit", "wait_for_rate_limit"}

\* C30: with rate limiting enabled, a call of get_or_create_limiter,
\* check_rate_limit or wait_for_rate_limit for a name leaves a limiter of that
\* name in the map and gets that instance; the instance of a name stays the
\* same in every step but a reset_limiter of the name, whichever order racing
\* callers pass the lock in; a check acts on the state the earlier callers left
\* in the instance; and a call for one name changes nothing of the limiter of
\* another name.
C30_SameInstance ==
    [][limiter_enabled =>
        \A p \in Providers :
            /\ \A c \in Callers, fn \in Referring :
                  Passes(c, fn, p)
                  => /\ p \in DOMAIN limiters'
                     /\ limiter_ids'[p] =
                           IF fn = "wait_for_rate_limit"
                           THEN limiter_calls'[c][1].limiter
                           ELSE returned'[1].limiter
                     /\ (fn = "check_rate_limit" /\ p \in DOMAIN limiters)
                           => /\ limiters'[p] = check(limiters[p]).limiter
                              /\ returned'[1].result = "Ok" <=> check(limiters[p]).ok
                     /\ \A q \in Providers \ {p} :
                           /\ q \in DOMAIN limiters <=> q \in DOMAIN limiters'
                           /\ q \in DOMAIN limiters
                                 => /\ limiters'[q] = limiters[q]
                                    /\ limiter_ids'[q] = limiter_ids[q]
            /\ ( /\ p \in DOMAIN limiters
                 /\ \A c \in Callers : ~Passes(c, "reset_limiter", p) )
                  => /\ p \in DOMAIN limiters'
                     /\ limiter_ids'[p] = limiter_ids[p]
      ]_vars

\* Two callers raced on the first reference of a name (both called when the
\* map had no limiter of it): one awaits until_ready on the registered
\* instance, the other has just been returned the same instance.
C30_Witness ==
    /\ limiter_enabled
    /\ returned # None
    /\ DOMAIN returned[1] = DOMAIN result("", "", "", NoInstance, FALSE)
    /\ returned[1].fn \in {"get_or_create_limiter", "check_rate_limit"}
    /\ returned[1].first
    /\ returned[1].provider \in DOMAIN limiter_ids
    /\ returned[1].limiter = limiter_ids[returned[1].provider]
    /\ \E c \in Callers :
          /\ at_until_ready(c)
          /\ limiter_calls[c][1].first
          /\ limiter_calls[c][1].provider = returned[1].provider
          /\ limiter_calls[c][1].limiter = returned[1].limiter

\* C31 (as claimed): reset_limiter(p) removes p's limiter, so that a
\* check_rate_limit(p) made next is admitted by a fresh one; after it no caller
\* awaits a limiter that is not the registered one of its provider; and the
\* limiters of the other providers are as they were.
C31_ResetFresh ==
    [][\A p \in Providers, c \in Callers :
          Passes(c, "reset_limiter", p)
          => /\ p \notin DOMAIN limiters'
             /\ limiter_enabled => check_rate_limit(limiters', p).ok
             /\ \A q \in Providers \ {p} :
                   /\ q \in DOMAIN limiters <=> q \in DOMAIN limiters'
                   /\ q \in DOMAIN limiters
                         => /\ limiters'[q] = limiters[q]
                            /\ limiter_ids'[q] = limiter_ids[q]
             /\ \A d \in Callers :
                   (limiter_calls'[d] # None /\ limiter_calls'[d][1].at = "until_ready")
                   => /\ limiter_calls'[d][1].provider \in DOMAIN limiter_ids'
                      /\ limiter_ids'[limiter_calls'[d][1].provider]
                            = limiter_calls'[d][1].limiter
      ]_vars

\* C32: with rate limiting disabled the map stays empty, no call but
\* reset_limiter goes to the lock and none awaits until_ready,
\* check_rate_limit and wait_for_rate_limit return Ok and get_limiter_stats
\* returns None.
C32_DisabledLimiter ==
    [][~limiter_enabled =>
        /\ limiters' = <<>>
        /\ limiter_ids' = <<>>
        /\ \A c \in Callers :
              limiter_calls'[c] # None => limiter_calls'[c][1].fn = "reset_limiter"
        /\ returned' # None =>
              /\ returned'[1].fn \in {"check_rate_limit", "wait_for_rate_limit"}
                    => returned'[1].result = "Ok"
              /\ returned'[1].fn = "get_limiter_stats" => returned'[1].result = "None"
      ]_vars

\* Rate limiting is disabled and a wait_for_rate_limit has just returned Ok
\* while the other caller is in a reset_limiter.
C32_Witness ==
    /\ ~limiter_enabled
    /\ returned # None
    /\ returned[1].fn = "wait_for_rate_limit"
    /\ returned[1].result = "Ok"
    /\ \E c \in Callers : limiter_calls[c] # None

\* The process after RateLimiterManager::new and CircuitBreakerManager::new
\* when CONFIG holds a failure_threshold of 0 and a provider rate limit that is
\* 0 or not: neither constructor looks at the two values, so the managers are
\* built with them.
MisconfigInit ==
    /\ limiter_enabled \in BOOLEAN
    /\ provider_rate_limit \in 0..RateLimit
    /\ limiters = <<>>
    /\ limiter_ids = <<>>
    /\ detached = <<>>
    /\ limiter_calls = [c \in Callers |-> None]
    /\ fresh_admitted = [p \in Providers |-> 0]
    /\ DispatcherAtRest
    /\ CacheAtRest
    /\ MetricsAtRest
    /\ key_log = <<>>
    /\ enabled = TRUE
    /\ failure_threshold = 0
    /\ timeout_duration = TimeoutTicks
    /\ half_open_max_calls = MaxHalfOpen
    /\ breakers = <<>>
    /\ lock = NoCaller
    /\ pc = [c \in Callers |-> "idle"]
    /\ prov = [c \in Callers |-> NoProvider]
    /\ invoked = 0
    /\ returned = None
    /\ fresh_failures = [p \in Providers |-> 0]
    /\ failure_streak = [p \in Providers |-> 0]
    /\ episode_trials = [p \in Providers |-> 0]
    /\ episode_callers = [p \in Providers |-> {}]

MisconfigSpec == MisconfigInit /\ [][LimiterNext]_vars

\* C33 (as claimed): no limiter manager exists with a provider rate limit of 0
\* and no breaker manager with a failure_threshold of 0 (their creation was
\* refused), and no call made later returns the configuration error.
C33_FailFast ==
    /\ limiter_enabled => provider_rate_limit > 0
    /\ enabled => failure_threshold > 0
    /\ returned # None => returned[1].result # RateLimitZero

\* ------------------------------------------------------ MetricsCollector

\* The durations (in ticks) a request is recorded with.
Durations == {1, 2}

\* RequestMetrics of a search: no response size given.
RequestMetrics(p, duration, success, cache_hit) ==
    [provider |-> p, operation |-> "search", duration |-> duration,
     success |-> success, response_size |-> None, cache_hit |-> cache_hit]

\* ProviderStats::default
ProviderStats_default ==
    [total_requests |-> 0, successful_requests |-> 0, failed_requests |-> 0,
     total_duration |-> 0, cache_hits |-> 0, avg_response_time |-> 0,
     last_request_time |-> None]

\* The update of the statistics that leaves failed requests out of the counts.
update_stats_successes_only(ps, m) ==
    [ps EXCEPT !.total_requests = IF m.success THEN @ + 1 ELSE @,
               !.successful_requests = IF m.success THEN @ + 1 ELSE @,
               !.cache_hits = IF m.cache_hit THEN @ + 1 ELSE @,
               !.total_duration = @ + m.duration,
               !.avg_response_time = (ps.total_duration + m.duration) \div (ps.total_requests + 1),
               !.last_request_time = Some(now)]

\* The update of a provider's ProviderStats in record_request.
update_stats(ps, m) ==
    [ps EXCEPT !.total_requests = @ + 1,
               !.successful_requests = IF m.success THEN @ + 1 ELSE @,
               !.failed_requests = IF m.success THEN @ ELSE @ + 1,
               !.cache_hits = IF m.cache_hit THEN @ + 1 ELSE @,
               !.total_duration = @ + m.duration,
               !.avg_response_time = (ps.total_duration + m.duration) \div (ps.total_requests + 1),
               !.last_request_time = Some(now)]

\* The counters of the recorder after record_request(m).
count(cs, m) ==
    [cs EXCEPT ![m.provider] =
        [@ EXCEPT !.requests = @ + 1,
                  !.successful = IF m.success THEN @ + 1 ELSE @,
                  !.failed = IF m.success THEN @ ELSE @ + 1,
                  !.cache_hits = IF m.cache_hit THEN @ + 1 ELSE @,
                  !.cache_misses = IF m.cache_hit THEN @ ELSE @ + 1]]

\* stats.entry(provider).or_default(), updated.
record_request(st, m) ==
    insert(st, m.provider,
           update_stats(IF m.provider \in DOMAIN st THEN st[m.provider]
                        ELSE ProviderStats_default, m))

\* The requests the recorder has counted.
RECURSIVE counted(_, _)
counted(cs, ps) ==
    IF ps = {} THEN 0
    ELSE LET p == CHOOSE x \in ps : TRUE
         IN cs[p].requests + counted(cs, ps \ {p})

\* What no step of the collector touches.
metrics_frame ==
    <<providers, keys, dispatch, cache_store, rate_limiting, key_log,
      config, breakers, lock, pc, prov, history>>

\* MetricsCollector::new, metrics enabled or not; everything else at rest.
MetricsInit ==
    /\ metrics_enabled \in BOOLEAN
    /\ stats = <<>>
    /\ counters = [p \in Providers |-> no_counts]
    /\ records = <<>>
    /\ DispatcherAtRest
    /\ CacheAtRest
    /\ LimiterAtRest
    /\ key_log = <<>>
    /\ ManagerAtRest

\* MetricsCollector::record_request
RecordRequest(m) ==
    /\ returned' = Some([op |-> "record_request", provider |-> Some(m.provider),
                         value |-> None])
    /\ IF metrics_enabled
       THEN /\ counted(counters, Providers) < MaxRecords
            /\ counters' = count(counters, m)
            /\ stats' = record_request(stats, m)
            /\ records' = Append(records, m)
       ELSE UNCHANGED <<stats, counters, records>>
    /\ UNCHANGED <<metrics_enabled, metrics_frame>>

\* MetricsCollector::get_provider_stats
GetProviderStats(p) ==
    /\ returned' = Some([op |-> "get_provider_stats", provider |-> Some(p),
                         value |-> IF metrics_enabled /\ p \in DOMAIN stats
                                   THEN Some(stats[p]) ELSE None])
    /\ UNCHANGED <<metrics_state, metrics_frame>>

\* MetricsCollector::reset_stats(provider): Some(p) removes the statistics of
\* p, None removes all.
ResetStats(provider) ==
    /\ returned' = Some([op |-> "reset_stats", provider |-> provider, value |-> None])
    /\ IF metrics_enabled
       THEN /\ stats' = IF provider = None THEN <<>> ELSE remove(stats, provider[1])
            /\ records' = IF provider = None THEN <<>>
                          ELSE SelectSeq(records, LAMBDA m : m.provider # provider[1])
       ELSE UNCHANGED <<stats, records>>
    /\ UNCHANGED <<metrics_enabled, counters, metrics_frame>>

MetricsNext ==
    \/ \E p \in Providers, duration \in Durations, success \in BOOLEAN, cache_hit \in BOOLEAN :
          RecordRequest(RequestMetrics(p, duration, success, cache_hit))
    \/ \E p \in Providers : GetProviderStats(p)
    \/ \E provider \in {None} \cup {Some(p) : p \in Providers} : ResetStats(provider)

MetricsSpec == MetricsInit /\ [][MetricsNext]_vars

\* The records of provider p in the log rs, and how many of them there are.
of_provider(rs, p) == SelectSeq(rs, LAMBDA m : m.provider = p)
hits(rs) == SelectSeq(rs, LAMBDA m : m.cache_hit)

\* C34: with metrics enabled, after every step a provider has statistics
\* exactly when requests have been recorded for it, total_requests is the
\* number of those records and the sum of successful_requests and
\* failed_requests, cache_hits is the number of the records with cache_hit;
\* reset_stats(Some(p)) removes the statistics of p and no other, and
\* reset_stats(None) removes all.
C34_StatsAccurate ==
    [][metrics_enabled =>
        /\ \A p \in Providers :
              /\ p \in DOMAIN stats' <=> of_provider(records', p) # <<>>
              /\ p \in DOMAIN stats'
                    => /\ stats'[p].total_requests = Len(of_provider(records', p))
                       /\ stats'[p].total_requests =
                             stats'[p].successful_requests + stats'[p].failed_requests
                       /\ stats'[p].cache_hits = Len(hits(of_provider(records', p)))
        /\ (returned' # None /\ returned'[1].op = "reset_stats")
              => stats' = IF returned'[1].provider = None THEN <<>>
                          ELSE remove(stats, returned'[1].provider[1])
      ]_vars

\* The statistics of tavily have just been reset while google has statistics
\* of two requests, one failed and one a cache hit.
C34_Witness ==
    /\ metrics_enabled
    /\ returned # None
    /\ returned[1].op = "reset_stats"
    /\ returned[1].provider = Some("tavily")
    /\ counters["tavily"].requests > 0
    /\ "google" \in DOMAIN stats
    /\ stats["google"].total_requests = 2
    /\ stats["google"].failed_requests = 1
    /\ stats["google"].cache_hits = 1

\* The call of caller c returns in this step after its operation returned /
\* without its operation having been invoked.
Completes(c) ==
    /\ pc[c] = "running"
    /\ pc'[c] = "idle"
    /\ returned'[1].value # "aborted"
Rejected(c) ==
    /\ pc[c] = "waiting"
    /\ pc'[c] = "idle"
    /\ returned' # None

\* C35 (as claimed): a call whose operation returned returns the operation's
\* result (Ok when the outcome is recorded as a success, the operation's error
\* when it is recorded as a failure), and every call rejected by the breaker
\* returns the "Circuit breaker is open" error.
C35_ErrorsTellApart ==
    [][\A c \in Callers :
          /\ Completes(c)
                => /\ returned'[1].value \in {"ok", "err"}
                   /\ enabled
                         => breakers'[prov[c]] =
                               IF returned'[1].value = "ok"
                               THEN on_success(breakers[prov[c]])
                               ELSE on_failure(breakers[prov[c]])
          /\ Rejected(c) => returned'[1].value = "open"
      ]_vars

\* C36: a rejected call leaves the breaker as it was, and no call is rejected
\* as Open once timeout_duration has elapsed since the breaker opened.
C36_RejectionChangesNothing ==
    [][\A c \in Callers :
          Rejected(c)
          => /\ prov[c] \in DOMAIN breakers
             /\ breakers' = breakers
             /\ returned'[1].value = "open" => ~should_attempt_reset(breakers[prov[c]])
      ]_vars

\* A call has just been rejected by an Open breaker whose window has been
\* running for a tick or more.
C36_Witness ==
    /\ returned # None
    /\ returned[1].op = "call"
    /\ returned[1].value = "open"
    /\ breakers[returned[1].provider].state = Open
    /\ breakers[returned[1].provider].state_changed_at >= 1

\* C37: the trial counter of every breaker is at most half_open_max_calls, and
\* it is 0 when the breaker is Closed or Open.
C37_TrialCounter ==
    \A p \in DOMAIN breakers :
        /\ breakers[p].half_open_calls <= breakers[p].half_open_max_calls
        /\ breakers[p].state \in {Closed, Open} => breakers[p].half_open_calls = 0

\* A breaker is HalfOpen with a counted trial in flight.
C37_Witness ==
    \E p \in DOMAIN breakers, c \in Callers :
        /\ breakers[p].state = HalfOpen
        /\ breakers[p].half_open_calls = 1
        /\ pc[c] = "running"
        /\ prov[c] = p

\* C38: a Closed breaker has failure_count < failure_threshold, an Open or
\* HalfOpen one has failure_count >= failure_threshold.
C38_CountAndState ==
    \A p \in DOMAIN breakers :
        IF breakers[p].state = Closed
        THEN breakers[p].failure_count < breakers[p].failure_threshold
        ELSE breakers[p].failure_count >= breakers[p].failure_threshold

\* A breaker is Closed with a failure counted (threshold 2) while another is
\* Open after two.
C38_Witness ==
    /\ \E p \in DOMAIN breakers :
          /\ breakers[p].state = Closed
          /\ breakers[p].failure_count = 1
    /\ \E p \in DOMAIN breakers :
          /\ breakers[p].state = Open
          /\ breakers[p].failure_count = 2

\* C39: while the operation of a call is in flight (until on_success or
\* on_failure runs) the breaker of its provider is Closed or HalfOpen, never
\* Open.
C39_NeverRecordedOpen ==
    \A c \in Callers :
        (enabled /\ pc[c] = "running") => breakers[prov[c]].state \in {Closed, HalfOpen}

\* A trial is in flight on a HalfOpen breaker while the other caller waits
\* for the guard with a call for the same provider.
C39_Witness ==
    /\ enabled
    /\ \E c, d \in Callers :
          /\ pc[c] = "running"
          /\ pc[d] = "waiting"
          /\ prov[c] = prov[d]
          /\ breakers[prov[c]].state = HalfOpen

\* C40 (as claimed): a search without a preferred provider that returns an
\* error has invoked every registered provider (each of them failed), so it
\* succeeds whenever a registered provider would; and it returns the "No
\* providers available" error only when no provider is registered.
C40_TriesEveryProvider ==
    (IsSearch /\ Unnamed /\ Finished /\ ~response[1].ok)
    => /\ \A p \in providers :
             \E i \in DOMAIN adapter_calls :
                 adapter_calls[i] = [provider |-> p, outcome |-> "err"]
       /\ response[1] = Err(terminal(None)) => providers = {}

====
